---- MODULE Spec2Model ----
(***************************************************************************)
(* Model of the 2D dynamic-geometry allocator and batching pipeline:       *)
(*   - PrimitiveChunk: free-list allocator and dirty-range upload          *)
(*   - MaskManager: stencil clone insertion                                *)
(*   - BatcherManager: run folding with the renderers' _canBatch           *)
(*   - PrimitiveChunkManager: allocation over several chunks               *)
(*   - ClearableObjectPool, the renderers' sub-chunk leases and the tiled  *)
(*     sprite dividing                                                     *)
(* Every component has its own specification over its own variables.       *)
(***************************************************************************)
EXTENDS Integers, Sequences, FiniteSets, TLC

(***************************************************************************)
(* Bounds of the model                                                     *)
(***************************************************************************)
\* capacity of the modelled chunk, in vertices (constructor argument)
MaxVertexCount == 4
\* number of allocateSubChunk / freeSubChunk calls explored
MaxOps == 6
\* number of Area objects the area pool is constructed with
PoolInitCount == 1
\* number of manager allocate / free calls explored
MaxManagerOps == 5

(***************************************************************************)
(* Program constants                                                       *)
(***************************************************************************)
\* floats per vertex: position 3 + uv 2 + color 4
VertexFloats == 9

\* capacity of the chunk in elements
Capacity == MaxVertexCount * VertexFloats

(***************************************************************************)
(* Generic helpers                                                         *)
(***************************************************************************)
RemoveAt(s, i) == SubSeq(s, 1, i - 1) \o SubSeq(s, i + 1, Len(s))

InsertAt(s, i, e) == SubSeq(s, 1, i - 1) \o <<e>> \o SubSeq(s, i, Len(s))

RECURSIVE SumSeq(_)
SumSeq(s) == IF s = <<>> THEN 0 ELSE Head(s) + SumSeq(Tail(s))

(***************************************************************************)
(* PrimitiveChunk allocator state.  Area objects have identity: `areas'    *)
(* is the heap of Area objects (index = identity), the free-list, the pool *)
(* and the live sub-chunks hold references into it.                        *)
(***************************************************************************)
VARIABLES
  areas,            \* heap of Area objects: Seq([start, size])
  vertexFreeAreas,  \* PrimitiveChunk.vertexFreeAreas: Seq(area reference)
  areaPool,         \* manager.areaPool: stack of area references
  subChunkPool,     \* manager.subChunkPool: stack of SubPrimitiveChunk objects
  subMeshPool,      \* manager.subMeshPool: stack of SubMesh objects
  subChunkCount,    \* number of SubPrimitiveChunk objects constructed so far
  subMeshCount,     \* number of SubMesh objects constructed so far
  subChunks,        \* live sub-chunks, each [id, vertexArea, subMesh]
  lastResult,       \* what the last allocateSubChunk returned ("none", "null", "ok")
  phase,            \* "alloc" while only allocations happened, "free" once frees
                    \* follow them, "mixed" when an allocation follows a free
  ops               \* number of calls made

chunkVars == <<areas, vertexFreeAreas, areaPool, subChunkPool, subMeshPool,
               subChunkCount, subMeshCount, subChunks, lastResult, phase, ops>>

VARIABLES
  updateVertexStart,   \* PrimitiveChunk.updateVertexStart
  updateVertexLength,  \* PrimitiveChunk.updateVertexLength
  updateIndexLength,   \* PrimitiveChunk.updateIndexLength
  written,             \* vertex writes [start, len] recorded since the last upload
  indexWrites,         \* index writes [start, len] made since the last upload
  vertexUpload,        \* the vertex setData call of the last uploadBuffer
  indexUpload,         \* the index setData call of the last uploadBuffer
  flushed,             \* the vertex writes that were pending at the last uploadBuffer
  dirtyPc              \* "write" after a recorded write, "upload" after uploadBuffer

dirtyVars == <<updateVertexStart, updateVertexLength, updateIndexLength, written,
               indexWrites, vertexUpload, indexUpload, flushed, dirtyPc>>

VARIABLES
  allSpriteMasks,        \* MaskManager.allSpriteMasks: Seq(influenceLayers)
  preMaskLayer,          \* MaskManager._preMaskLayer
  elements,              \* insertMask's input, each [maskInteraction, maskLayer]
  maskIndex,             \* loop index of insertMask (next element, from 1)
  maskInsertedElements,  \* insertMask's output
  maskPc,                \* "run" inside insertMask, "done" after it returned
  maskQueue              \* the queue of the frame insertMask is called for: 1 opaque,
                         \* 2 alpha-test, 3 transparent

maskVars == <<allSpriteMasks, preMaskLayer, elements, maskIndex, maskInsertedElements,
              maskPc, maskQueue>>

VARIABLES
  batchElements,    \* batch's input array of render elements
  batchIndex,       \* loop index of batch (next element, from 1)
  preElement,       \* the accumulator: index into batchElements, 0 when undefined
  batchedElements,  \* batch's output: indices into batchElements
  subMesh,          \* sub-chunk -> its SubMesh [start, count]
  meshIndices,      \* mesh buffer -> content of its index array
  iLen,             \* mesh buffer -> _iLen / _indexLen
  vLen,             \* mesh buffer -> _vLen / _vertexLen
  folds,            \* history: the [acc, next] pairs batch folded
  batchPc           \* "run" inside batch, "done" after it returned

VARIABLES
  batchedQueue,     \* SpriteMaskBatcher._batchedQueue
  stencilOps,       \* SpriteMaskBatcher._stencilOps
  preRenderElement, \* SpriteMaskBatcher._preRenderElement, NoElement when unset
  preOp,            \* SpriteMaskBatcher._preOp, "null" when unset
  drawCalls,        \* history: the drawElement calls since the last clear, each
                    \* [element, op, merged]
  maskBatcherPc     \* "draw" while elements are drawn, "drawn" after uploadAndDraw

maskBatcherVars == <<batchedQueue, stencilOps, preRenderElement, preOp, drawCalls,
                     maskBatcherPc>>

batchVars == <<batchElements, batchIndex, preElement, batchedElements, subMesh,
               meshIndices, iLen, vLen, folds, batchPc, maskBatcherVars>>

VARIABLES
  cbA,       \* first argument of _canBatch
  cbB,       \* second argument of _canBatch
  cbResult,  \* what _canBatch returned
  cbPc       \* "call" before the call, "done" after it

cbVars == <<cbA, cbB, cbResult, cbPc>>

VARIABLES
  mgr,        \* the manager's pools: [areas, areaPool, subChunkPool, subMeshPool,
              \* subChunkCount, subMeshCount]
  mgrChunks,  \* the manager's chunks in creation order, each its vertexFreeAreas
  mgrLive,    \* live sub-chunks, each [chunk, id, vertexArea, subMesh]
  mgrLast,    \* the last call: [op, request, fits, chunk, created]
  mgrOps      \* number of calls made

mgrVars == <<mgr, mgrChunks, mgrLive, mgrLast, mgrOps>>

VARIABLES
  poolElements,      \* ClearableObjectPool._elements: Seq(element identity)
  usedElementCount,  \* ClearableObjectPool._usedElementCount
  poolHanded,        \* the elements get() returned since the last clear()
  poolOps            \* number of calls made

poolVars == <<poolElements, usedElementCount, poolHanded, poolOps>>

VARIABLES
  leases,           \* every sub-chunk a renderer allocated: [owner, len, frees]
  charRenderInfos,  \* TextRenderer._charRenderInfos: Seq([chunk, texture])
  spriteChunk,      \* SpriteRenderer._chunk: a sub-chunk of `leases', 0 when unset
  textDestroyed,    \* the TextRenderer's _onDestroy ran
  spriteDestroyed,  \* the SpriteRenderer's _onDestroy ran
  rendOps           \* number of calls made

rendVars == <<leases, charRenderInfos, spriteChunk, textDestroyed, spriteDestroyed,
              rendOps>>

VARIABLES
  tileIn,           \* the tiled renderer: [tileMode, width, height, expect, border,
                    \* threshold]
  posRow,           \* TiledSpriteAssembler._posRow
  posColumn,        \* TiledSpriteAssembler._posColumn
  uvRow,            \* TiledSpriteAssembler._uvRow
  uvColumn,         \* TiledSpriteAssembler._uvColumn
  tileDivision,     \* what the dividing step decided: [row, column, warned, divisors]
  tileVertexCount,  \* the vertex count updatePositions passed to resetData
  tilePc            \* "call" before updatePositions, "done" after it

VARIABLES
  sceneRenderers,   \* the tiled renderers of a scene: [in, chunk, dirty] each, `chunk'
                    \* the renderer's sub-chunk in `leases' (0 = none), `dirty' its
                    \* _dirtyUpdateFlag
  sceneWrites,      \* the assembler calls of the last _render: [call, renderer,
                    \* last, len], `last' the highest vertex slot written, counted
                    \* from the start of the renderer's area, `len' the area's length
  sceneOps          \* number of calls made on the scene

sceneVars == <<sceneRenderers, sceneWrites, sceneOps>>

tileVars == <<tileIn, posRow, posColumn, uvRow, uvColumn, tileDivision,
              tileVertexCount, tilePc, sceneVars>>

\* the variables of the components that follow the batching pipeline
restVars == <<mgrVars, poolVars, rendVars, tileVars>>

vars == <<chunkVars, dirtyVars, maskVars, batchVars, cbVars, restVars>>

NoArea == 0

\* ReturnableObjectPool.get: hands out the most recently returned element,
\* constructs a new one when the pool is empty
PoolGet(pool, objs) ==
  IF Len(pool) = 0
    THEN [elem |-> Len(objs) + 1,
          pool |-> pool,
          objs |-> Append(objs, [start |-> 0, size |-> 0])]
    ELSE [elem |-> pool[Len(pool)],
          pool |-> SubSeq(pool, 1, Len(pool) - 1),
          objs |-> objs]

\* ReturnableObjectPool.return
PoolReturn(pool, e) == Append(pool, e)

\* variant: an area of exactly the needed size is passed over
RECURSIVE AllocateAreaFrom_noExact(_, _, _, _, _)
AllocateAreaFrom_noExact(i, needSize, objs, free, pool) ==
  IF i > Len(free)
    THEN [objs |-> objs, free |-> free, pool |-> pool, area |-> NoArea]
    ELSE
      LET area == free[i]
          size == objs[area].size
      IN IF size > needSize
           THEN LET g == PoolGet(pool, objs)
                    newArea == g.elem
                    o1 == [g.objs EXCEPT ![newArea].start = g.objs[area].start]
                    o2 == [o1 EXCEPT ![newArea].size = needSize]
                    o3 == [o2 EXCEPT ![area].start = o2[area].start + needSize]
                    o4 == [o3 EXCEPT ![area].size = o3[area].size - needSize]
                IN [objs |-> o4, free |-> free, pool |-> g.pool, area |-> newArea]
           ELSE AllocateAreaFrom_noExact(i + 1, needSize, objs, free, pool)

\* PrimitiveChunk._allocateArea, loop from free-list position i
RECURSIVE AllocateAreaFrom(_, _, _, _, _)
AllocateAreaFrom(i, needSize, objs, free, pool) ==
  IF i > Len(free)
    THEN [objs |-> objs, free |-> free, pool |-> pool, area |-> NoArea]
    ELSE
      LET area == free[i]
          size == objs[area].size
      IN IF size > needSize
           THEN LET g == PoolGet(pool, objs)
                    newArea == g.elem
                    o1 == [g.objs EXCEPT ![newArea].start = g.objs[area].start]
                    o2 == [o1 EXCEPT ![newArea].size = needSize]
                    o3 == [o2 EXCEPT ![area].start = o2[area].start + needSize]
                    o4 == [o3 EXCEPT ![area].size = o3[area].size - needSize]
                IN [objs |-> o4, free |-> free, pool |-> g.pool, area |-> newArea]
           ELSE IF size = needSize
             THEN [objs |-> objs,
                   free |-> RemoveAt(free, i),
                   pool |-> PoolReturn(pool, area),
                   area |-> area]
             ELSE AllocateAreaFrom(i + 1, needSize, objs, free, pool)

\* variant: the scan starts at the second free area
allocateArea_fromSecond(needSize, objs, free, pool) ==
  AllocateAreaFrom(2, needSize, objs, free, pool)

allocateArea(needSize, objs, free, pool) == AllocateAreaFrom(1, needSize, objs, free, pool)

\* PrimitiveChunk._freeArea, loop body from free-list position i
RECURSIVE FreeAreaLoop(_, _, _, _, _, _, _)
FreeAreaLoop(i, areaLen, objs, free, pool, preArea, notMerge) ==
  IF i > areaLen
    THEN [objs |-> objs, free |-> free, pool |-> pool]
    ELSE
      LET curArea == free[i]
          preStart == objs[preArea].start
          size == objs[preArea].size
          curStart == objs[curArea].start
          preEnd == preStart + size
          curEnd == curStart + objs[curArea].size
      IN IF preEnd < curStart
           THEN [objs |-> objs,
                 free |-> IF notMerge THEN InsertAt(free, i, preArea) ELSE free,
                 pool |-> pool]
           ELSE IF preEnd = curStart
             THEN LET o1 == [objs EXCEPT ![curArea].start = preStart]
                      o2 == [o1 EXCEPT ![curArea].size = o1[curArea].size + size]
                  IN FreeAreaLoop(i + 1, areaLen, o2, free, PoolReturn(pool, preArea),
                                  curArea, FALSE)
             ELSE IF preStart = curEnd
               THEN LET o1 == [objs EXCEPT ![curArea].size = objs[curArea].size + size]
                    IN FreeAreaLoop(i + 1, areaLen, o1, free, PoolReturn(pool, preArea),
                                    curArea, FALSE)
               ELSE IF preStart > curEnd /\ i = areaLen
                 THEN [objs |-> objs, free |-> Append(free, preArea), pool |-> pool]
                 ELSE FreeAreaLoop(i + 1, areaLen, objs, free, pool, preArea, notMerge)

\* variant: an area freed into an empty free-list is dropped
freeArea_dropWhenEmpty(area, objs, free, pool) ==
  FreeAreaLoop(1, Len(free), objs, free, pool, area, TRUE)

freeArea(area, objs, free, pool) ==
  IF Len(free) = 0
    THEN [objs |-> objs, free |-> Append(free, area), pool |-> pool]
    ELSE FreeAreaLoop(1, Len(free), objs, free, pool, area, TRUE)

\* ReturnableObjectPool.get on a pool whose objects carry no modelled field:
\* `count' objects were constructed so far
PoolGetId(pool, count) ==
  IF Len(pool) = 0
    THEN [elem |-> count + 1, pool |-> pool, count |-> count + 1]
    ELSE [elem |-> pool[Len(pool)],
          pool |-> SubSeq(pool, 1, Len(pool) - 1),
          count |-> count]

\* allocateSubChunk's null
NoSubChunk == [id |-> 0, vertexArea |-> NoArea, subMesh |-> 0]

\* allocateSubChunk's success branch: the sub-chunk sc with the sub-mesh sm around
\* the area r.area
SubChunkAround(r, sc, sm, m) ==
  [free |-> r.free,
   m |-> [m EXCEPT !.areas = r.objs, !.areaPool = r.pool,
                   !.subChunkPool = sc.pool, !.subChunkCount = sc.count,
                   !.subMeshPool = sm.pool, !.subMeshCount = sm.count],
   subChunk |-> [id |-> sc.elem, vertexArea |-> r.area, subMesh |-> sm.elem]]

\* allocateSubChunk after _allocateArea returned r
AfterAllocateArea(r, m) ==
  IF r.area # NoArea
    THEN SubChunkAround(r, PoolGetId(m.subChunkPool, m.subChunkCount),
                        PoolGetId(m.subMeshPool, m.subMeshCount), m)
    ELSE [free |-> r.free,
          m |-> [m EXCEPT !.areas = r.objs, !.areaPool = r.pool],
          subChunk |-> NoSubChunk]

\* variant: the SubPrimitiveChunk is taken from its pool before the area is tested
allocateSubChunkOn_eagerGet(vertexCount, free, m) ==
  LET r == allocateArea(vertexCount * VertexFloats, m.areas, free, m.areaPool)
      sc == PoolGetId(m.subChunkPool, m.subChunkCount)
      m1 == [m EXCEPT !.areas = r.objs, !.areaPool = r.pool,
                      !.subChunkPool = sc.pool, !.subChunkCount = sc.count]
  IN IF r.area # NoArea
       THEN LET sm == PoolGetId(m1.subMeshPool, m1.subMeshCount)
            IN [free |-> r.free,
                m |-> [m1 EXCEPT !.subMeshPool = sm.pool, !.subMeshCount = sm.count],
                subChunk |-> [id |-> sc.elem, vertexArea |-> r.area,
                              subMesh |-> sm.elem]]
       ELSE [free |-> r.free, m |-> m1, subChunk |-> NoSubChunk]

\* PrimitiveChunk.allocateSubChunk(manager, vertexCount) on the chunk whose
\* vertexFreeAreas is `free'; m holds the manager's pools
\* variant: the area is requested with 4 elements per vertex
allocateSubChunkOn_fourPerVertex(vertexCount, free, m) ==
  AfterAllocateArea(allocateArea(vertexCount * 4, m.areas, free, m.areaPool), m)

allocateSubChunkOn(vertexCount, free, m) ==
  AfterAllocateArea(allocateArea(vertexCount * VertexFloats, m.areas, free, m.areaPool),
                    m)

\* freeSubChunk after _freeArea left the areas as r
AfterFreeArea(r, subChunk, m) ==
  [free |-> r.free,
   m |-> [m EXCEPT !.areas = r.objs, !.areaPool = r.pool,
                   !.subMeshPool = PoolReturn(m.subMeshPool, subChunk.subMesh),
                   !.subChunkPool = PoolReturn(m.subChunkPool, subChunk.id)]]

\* PrimitiveChunk.freeSubChunk(manager, subChunk)
freeSubChunkOn(subChunk, free, m) ==
  AfterFreeArea(freeArea(subChunk.vertexArea, m.areas, free, m.areaPool), subChunk, m)

ChunkInit ==
  /\ areas = [i \in 1..(PoolInitCount + 1) |->
                IF i = 1 THEN [start |-> 0, size |-> Capacity]
                         ELSE [start |-> 0, size |-> 0]]
  /\ vertexFreeAreas = <<1>>
  /\ areaPool = [i \in 1..PoolInitCount |-> i + 1]
  /\ subChunkPool = [i \in 1..PoolInitCount |-> i]
  /\ subMeshPool = [i \in 1..PoolInitCount |-> i]
  /\ subChunkCount = PoolInitCount
  /\ subMeshCount = PoolInitCount
  /\ subChunks = <<>>
  /\ lastResult = "none"
  /\ phase = "alloc"
  /\ ops = 0

\* the pools of the chunk's manager
ChunkManagerPools ==
  [areas |-> areas, areaPool |-> areaPool,
   subChunkPool |-> subChunkPool, subMeshPool |-> subMeshPool,
   subChunkCount |-> subChunkCount, subMeshCount |-> subMeshCount]

\* the chunk and its manager's pools after a call that left them as r
ChunkBecomes(r) ==
  /\ areas' = r.m.areas
  /\ vertexFreeAreas' = r.free
  /\ areaPool' = r.m.areaPool
  /\ subChunkPool' = r.m.subChunkPool
  /\ subMeshPool' = r.m.subMeshPool
  /\ subChunkCount' = r.m.subChunkCount
  /\ subMeshCount' = r.m.subMeshCount

\* what allocateSubChunk returned as r reaches the caller
ChunkAllocated(r) ==
  /\ ChunkBecomes(r)
  /\ subChunks' = IF r.subChunk # NoSubChunk THEN Append(subChunks, r.subChunk)
                                             ELSE subChunks
  /\ lastResult' = IF r.subChunk # NoSubChunk THEN "ok" ELSE "null"

\* PrimitiveChunk.allocateSubChunk(manager, vertexCount)
allocateSubChunk(vertexCount) ==
  /\ ops < MaxOps
  /\ ChunkAllocated(allocateSubChunkOn(vertexCount, vertexFreeAreas, ChunkManagerPools))
  /\ phase' = IF phase = "alloc" THEN "alloc" ELSE "mixed"
  /\ ops' = ops + 1
  /\ UNCHANGED <<dirtyVars, maskVars, batchVars, cbVars, restVars>>

\* PrimitiveChunk.freeSubChunk(manager, subChunk) of the h-th live sub-chunk
freeSubChunk(h) ==
  /\ ops < MaxOps
  /\ ChunkBecomes(freeSubChunkOn(subChunks[h], vertexFreeAreas, ChunkManagerPools))
  /\ subChunks' = RemoveAt(subChunks, h)
  /\ lastResult' = "none"
  /\ phase' = IF phase = "mixed" THEN "mixed" ELSE "free"
  /\ ops' = ops + 1
  /\ UNCHANGED <<dirtyVars, maskVars, batchVars, cbVars, restVars>>

\* vertex counts a caller asks for, the largest one vertex beyond the capacity
VertexCounts == 1..(MaxVertexCount + 1)

Allocate == \E vertexCount \in VertexCounts : allocateSubChunk(vertexCount)

Free == \E h \in 1..Len(subChunks) : freeSubChunk(h)

ChunkNext == Allocate \/ Free

\* the free-list as a sequence of [start, size] values
FreeList == [i \in 1..Len(vertexFreeAreas) |-> areas[vertexFreeAreas[i]]]

FreeSizes == [i \in 1..Len(vertexFreeAreas) |-> areas[vertexFreeAreas[i]].size]

LiveSizes == [i \in 1..Len(subChunks) |-> areas[subChunks[i].vertexArea].size]

(***************************************************************************)
(* C1: after any sequence of allocateSubChunk / freeSubChunk calls the     *)
(* free-list is sorted by strictly increasing start, no two free areas     *)
(* overlap and no two free areas are address-adjacent.                     *)
(***************************************************************************)
C1_FreeListSortedDisjointMerged ==
  \A i \in 1..(Len(vertexFreeAreas) - 1) :
    FreeList[i].start + FreeList[i].size < FreeList[i + 1].start

(***************************************************************************)
(* C2: the sizes of the free areas plus the sizes of the areas of the live *)
(* sub-chunks add up to the capacity maxVertexCount * 9.                   *)
(***************************************************************************)
C2_Conservation == SumSeq(FreeSizes) + SumSeq(LiveSizes) = Capacity

(***************************************************************************)
(* C3: allocating N sub-chunks from a fresh chunk and then freeing all of  *)
(* them, in any order, leaves the free-list as the one area {0, Capacity}. *)
(***************************************************************************)
C3_RoundTripRestoresWholeArea ==
  (phase = "free" /\ subChunks = <<>>) =>
    FreeList = <<[start |-> 0, size |-> Capacity]>>

\* the h-th live sub-chunk's area touches a free area on both sides
Sandwiched(h) ==
  LET a == areas[subChunks[h].vertexArea]
  IN /\ \E p \in 1..Len(vertexFreeAreas) :
          FreeList[p].start + FreeList[p].size = a.start
     /\ \E q \in 1..Len(vertexFreeAreas) : FreeList[q].start = a.start + a.size

\* the range that the h-th live sub-chunk's area forms with its free neighbours
MergedRange(h) ==
  LET a == areas[subChunks[h].vertexArea]
      p == CHOOSE p \in 1..Len(vertexFreeAreas) :
             FreeList[p].start + FreeList[p].size = a.start
      q == CHOOSE q \in 1..Len(vertexFreeAreas) : FreeList[q].start = a.start + a.size
  IN [start |-> FreeList[p].start,
      size |-> FreeList[p].size + a.size + FreeList[q].size]

(***************************************************************************)
(* C18: freeSubChunk of an area whose predecessor and successor are both   *)
(* free and adjacent (in a sorted, merged free-list) leaves exactly one    *)
(* free area covering the three ranges, and the free-list gets shorter by  *)
(* exactly one.                                                            *)
(***************************************************************************)
C18_TwoSidedMergeLeavesOneArea ==
  [][\A h \in 1..Len(subChunks) :
       (freeSubChunk(h) /\ C1_FreeListSortedDisjointMerged /\ Sandwiched(h)) =>
         /\ Len(vertexFreeAreas') = Len(vertexFreeAreas) - 1
         /\ Cardinality({k \in 1..Len(vertexFreeAreas') :
                           areas'[vertexFreeAreas'[k]] = MergedRange(h)}) = 1]_vars

\* positions of the free areas that can hold needSize elements
Fitting(needSize) == {k \in 1..Len(vertexFreeAreas) : FreeList[k].size >= needSize}

\* the fitting free area with the lowest start
LowestFit(needSize) ==
  CHOOSE k \in Fitting(needSize) :
    \A j \in Fitting(needSize) :
      \/ FreeList[k].start < FreeList[j].start
      \/ (FreeList[k].start = FreeList[j].start /\ k <= j)

(***************************************************************************)
(* C19: an allocation is served first-fit.  It uses the lowest-start free  *)
(* area that is large enough; the returned area is {old start, requested   *)
(* size}; a larger free area is shrunk in place, an exact match is removed *)
(* from the free-list; the other free areas are unchanged.                 *)
(***************************************************************************)
C19_FirstFit ==
  [][\A vertexCount \in VertexCounts :
       (allocateSubChunk(vertexCount) /\ Fitting(vertexCount * VertexFloats) # {}) =>
         LET needSize == vertexCount * VertexFloats
             k == LowestFit(needSize)
             old == FreeList[k]
         IN /\ Len(subChunks') = Len(subChunks) + 1
            /\ areas'[subChunks'[Len(subChunks')].vertexArea] =
                 [start |-> old.start, size |-> needSize]
            /\ [i \in 1..Len(vertexFreeAreas') |-> areas'[vertexFreeAreas'[i]]] =
                 IF old.size > needSize
                   THEN [FreeList EXCEPT ![k] = [start |-> old.start + needSize,
                                                 size |-> old.size - needSize]]
                   ELSE RemoveAt(FreeList, k)]_vars

(***************************************************************************)
(* C20: when no free area can hold vertexCount * 9 elements,               *)
(* allocateSubChunk returns null, takes nothing from the sub-chunk,        *)
(* sub-mesh and area pools and leaves the free-list and the dirty-range    *)
(* fields unchanged.                                                       *)
(***************************************************************************)
C20_FailedAllocationChangesNothing ==
  [][\A vertexCount \in VertexCounts :
       (allocateSubChunk(vertexCount) /\ Fitting(vertexCount * VertexFloats) = {}) =>
         /\ lastResult' = "null"
         /\ UNCHANGED <<areas, vertexFreeAreas, areaPool, subChunkPool, subMeshPool,
                        subChunkCount, subMeshCount, subChunks>>
         /\ UNCHANGED <<updateVertexStart, updateVertexLength, updateIndexLength>>]_vars

\* an allocation failed although the chunk still has free areas and objects
\* wait in the pools
C20_Witness ==
  /\ lastResult = "null"
  /\ Len(vertexFreeAreas) > 0
  /\ Len(subChunkPool) > 0
  /\ Len(areaPool) > 0

(***************************************************************************)
(* C21: on a freshly constructed chunk allocateSubChunk(vertexCount)       *)
(* succeeds iff vertexCount <= maxVertexCount and returns the area         *)
(* {0, vertexCount * 9}; a request of exactly maxVertexCount leaves the    *)
(* free-list empty, and freeing that sub-chunk next restores the single    *)
(* free area {0, Capacity}.                                                *)
(***************************************************************************)
C21_FreshChunkAllocation ==
  [][/\ \A vertexCount \in VertexCounts :
          (allocateSubChunk(vertexCount) /\ ops = 0) =>
            /\ (lastResult' = "ok") <=> (vertexCount <= MaxVertexCount)
            /\ lastResult' = "ok" =>
                  /\ Len(subChunks') = 1
                  /\ areas'[subChunks'[1].vertexArea] =
                       [start |-> 0, size |-> vertexCount * VertexFloats]
            /\ vertexCount = MaxVertexCount => vertexFreeAreas' = <<>>
     /\ (/\ ops = 1
         /\ Len(subChunks) = 1
         /\ areas[subChunks[1].vertexArea].size = Capacity
         /\ freeSubChunk(1)) =>
          FreeList' = <<[start |-> 0, size |-> Capacity]>>]_vars

\* the whole chunk was allocated as one sub-chunk and freed again: the
\* free-list holds the constructor's area, which the exact match also put
\* into the area pool
C21_Witness ==
  /\ ops = 2
  /\ subChunks = <<>>
  /\ vertexFreeAreas = <<1>>
  /\ areas[1] = [start |-> 0, size |-> Capacity]
  /\ \E k \in 1..Len(areaPool) : areaPool[k] = 1

\* the Area objects the live sub-chunks hold
LiveAreas == {subChunks[h].vertexArea : h \in 1..Len(subChunks)}

\* the Area objects in the free-list / waiting in the area pool
FreeAreas == {vertexFreeAreas[i] : i \in 1..Len(vertexFreeAreas)}

PooledAreas == {areaPool[k] : k \in 1..Len(areaPool)}

(***************************************************************************)
(* C32: an Area object held by a live sub-chunk, or present in the         *)
(* free-list, is never at the same time available in the area pool, and no *)
(* two live sub-chunks share one Area object.                              *)
(***************************************************************************)
C32_NoPooledAreaInUse ==
  /\ (LiveAreas \cup FreeAreas) \cap PooledAreas = {}
  /\ \A g, h \in 1..Len(subChunks) :
       g # h => subChunks[g].vertexArea # subChunks[h].vertexArea

(***************************************************************************)
(* C34: the vertex areas of the live sub-chunks are pairwise disjoint and  *)
(* each lies within [0, Capacity); an allocation never returns a range     *)
(* that overlaps the range of a live sub-chunk.                            *)
(***************************************************************************)
C34_LiveAreasDisjoint ==
  /\ \A h \in 1..Len(subChunks) :
       /\ areas[subChunks[h].vertexArea].start >= 0
       /\ areas[subChunks[h].vertexArea].start + areas[subChunks[h].vertexArea].size
            <= Capacity
  /\ \A g, h \in 1..Len(subChunks) :
       g < h =>
         \/ areas[subChunks[g].vertexArea].start + areas[subChunks[g].vertexArea].size
              <= areas[subChunks[h].vertexArea].start
         \/ areas[subChunks[h].vertexArea].start + areas[subChunks[h].vertexArea].size
              <= areas[subChunks[g].vertexArea].start

(***************************************************************************)
(* C38: every area start and size of the chunk, free or allocated, is a    *)
(* multiple of 9, so the vertex index offset start / 9 of a live sub-chunk *)
(* is an integer smaller than maxVertexCount.                              *)
(***************************************************************************)
C38_AreasMultiplesOfNine ==
  /\ \A a \in LiveAreas \cup FreeAreas :
       /\ areas[a].start % VertexFloats = 0
       /\ areas[a].size % VertexFloats = 0
  /\ \A a \in LiveAreas :
       /\ areas[a].start \div VertexFloats >= 0
       /\ areas[a].start \div VertexFloats < MaxVertexCount

\* after allocations and frees in mixed order a live sub-chunk sits in the
\* last vertex slot of the chunk while the free-list is not empty
C38_Witness ==
  /\ phase = "mixed"
  /\ Len(vertexFreeAreas) >= 1
  /\ \E a \in LiveAreas :
       /\ areas[a].start = Capacity - VertexFloats
       /\ areas[a].size = VertexFloats

(***************************************************************************)
(* PrimitiveChunkManager: the chunks share the manager's pools.  The       *)
(* manager's allocate / free follow the component design of the allocator. *)
(***************************************************************************)
ManagerInit ==
  /\ mgr = [areas |-> [i \in 1..PoolInitCount |-> [start |-> 0, size |-> 0]],
            areaPool |-> [i \in 1..PoolInitCount |-> i],
            subChunkPool |-> [i \in 1..PoolInitCount |-> i],
            subMeshPool |-> [i \in 1..PoolInitCount |-> i],
            subChunkCount |-> PoolInitCount,
            subMeshCount |-> PoolInitCount]
  /\ mgrChunks = <<>>
  /\ mgrLive = <<>>
  /\ mgrLast = [op |-> "none", request |-> 0, result |-> "none", chunk |-> 0,
                created |-> FALSE]
  /\ mgrOps = 0

\* allocate's result: chunk c served (or failed to serve) the request with r
ServedBy(c, r, chunks, created) ==
  [chunks |-> IF created THEN Append(chunks, r.free) ELSE [chunks EXCEPT ![c] = r.free],
   m |-> r.m, subChunk |-> r.subChunk, chunk |-> c, created |-> created]

RECURSIVE AllocateFromChunks(_, _, _, _)
RECURSIVE TryChunk(_, _, _, _)

\* allocate's step after chunk c's allocateSubChunk returned r: return the
\* sub-chunk, or go on to the next chunk
TryChunk(c, vertexCount, chunks, r) ==
  IF r.subChunk # NoSubChunk
    THEN ServedBy(c, r, chunks, FALSE)
    ELSE AllocateFromChunks(c + 1, vertexCount, [chunks EXCEPT ![c] = r.free], r.m)

\* allocate's scan of the chunks in creation order, from chunk c; past the last
\* chunk a new chunk of the fixed capacity is constructed and tried
AllocateFromChunks(c, vertexCount, chunks, m) ==
  IF c > Len(chunks)
    THEN ServedBy(c,
                  allocateSubChunkOn(vertexCount, <<Len(m.areas) + 1>>,
                    [m EXCEPT !.areas = Append(m.areas, [start |-> 0, size |-> Capacity])]),
                  chunks, TRUE)
    ELSE TryChunk(c, vertexCount, chunks, allocateSubChunkOn(vertexCount, chunks[c], m))

\* what allocate returned as r reaches the caller
ManagerAllocated(vertexCount, r) ==
  /\ mgr' = r.m
  /\ mgrChunks' = r.chunks
  /\ mgrLive' = IF r.subChunk # NoSubChunk
                  THEN Append(mgrLive, [chunk |-> r.chunk, id |-> r.subChunk.id,
                                        vertexArea |-> r.subChunk.vertexArea,
                                        subMesh |-> r.subChunk.subMesh])
                  ELSE mgrLive
  /\ mgrLast' = [op |-> "allocate", request |-> vertexCount,
                 result |-> IF r.subChunk # NoSubChunk THEN "ok" ELSE "null",
                 chunk |-> r.chunk, created |-> r.created]

\* PrimitiveChunkManager allocate(vertexCount)
ManagerAllocate(vertexCount) ==
  /\ mgrOps < MaxManagerOps
  /\ ManagerAllocated(vertexCount, AllocateFromChunks(1, vertexCount, mgrChunks, mgr))
  /\ mgrOps' = mgrOps + 1
  /\ UNCHANGED <<chunkVars, dirtyVars, maskVars, batchVars, cbVars>>
  /\ UNCHANGED <<poolVars, rendVars, tileVars>>

\* the owning chunk's free-list and the pools after freeSubChunk left them as r
ManagerFreed(c, r) ==
  /\ mgr' = r.m
  /\ mgrChunks' = [mgrChunks EXCEPT ![c] = r.free]
  /\ mgrLast' = [op |-> "free", request |-> 0, result |-> "none", chunk |-> c,
                 created |-> FALSE]

\* PrimitiveChunkManager free(subChunk) of the h-th live sub-chunk: delegates to
\* the owning chunk
ManagerFree(h) ==
  /\ mgrOps < MaxManagerOps
  /\ ManagerFreed(mgrLive[h].chunk,
                  freeSubChunkOn(mgrLive[h], mgrChunks[mgrLive[h].chunk], mgr))
  /\ mgrLive' = RemoveAt(mgrLive, h)
  /\ mgrOps' = mgrOps + 1
  /\ UNCHANGED <<chunkVars, dirtyVars, maskVars, batchVars, cbVars>>
  /\ UNCHANGED <<poolVars, rendVars, tileVars>>

MgrAllocate == \E vertexCount \in 1..MaxVertexCount : ManagerAllocate(vertexCount)

MgrFree == \E h \in 1..Len(mgrLive) : ManagerFree(h)

ManagerNext == MgrAllocate \/ MgrFree

\* chunk c has a free area that can hold vertexCount vertices
ChunkFits(c, vertexCount) ==
  \E k \in 1..Len(mgrChunks[c]) :
    mgr.areas[mgrChunks[c][k]].size >= vertexCount * VertexFloats

(***************************************************************************)
(* C11: allocate(vertexCount) with 1 <= vertexCount <= per-chunk capacity  *)
(* returns a sub-chunk after any earlier allocate / free calls; when no    *)
(* existing chunk can serve the request a new chunk is created and the     *)
(* sub-chunk comes from it.                                                *)
(***************************************************************************)
C11_AllocateNeverFails ==
  [][\A vertexCount \in 1..MaxVertexCount :
       ManagerAllocate(vertexCount) =>
         /\ mgrLast'.result = "ok"
         /\ Len(mgrLive') = Len(mgrLive) + 1
         /\ (\A c \in 1..Len(mgrChunks) : ~ChunkFits(c, vertexCount)) =>
              /\ Len(mgrChunks') = Len(mgrChunks) + 1
              /\ mgrLive'[Len(mgrLive')].chunk = Len(mgrChunks')]_vars

\* a request that no existing chunk could serve was served by a new chunk
C11_Witness ==
  /\ mgrLast.op = "allocate"
  /\ mgrLast.result = "ok"
  /\ mgrLast.created
  /\ mgrLast.chunk >= 2

(***************************************************************************)
(* C12: allocate serves the request from the first chunk, in creation      *)
(* order, that can hold it; a chunk is appended only when no existing      *)
(* chunk can; the number of chunks never decreases.                        *)
(***************************************************************************)
C12_FirstChunkInCreationOrder ==
  [][/\ Len(mgrChunks') >= Len(mgrChunks)
     /\ \A vertexCount \in 1..MaxVertexCount :
          ManagerAllocate(vertexCount) =>
            LET fit == {c \in 1..Len(mgrChunks) : ChunkFits(c, vertexCount)}
            IN IF fit = {}
                 THEN Len(mgrChunks') = Len(mgrChunks) + 1
                 ELSE /\ Len(mgrChunks') = Len(mgrChunks)
                      /\ mgrLast'.result = "ok"
                      /\ mgrLast'.chunk = CHOOSE c \in fit : \A d \in fit : c <= d]_vars

\* the first chunk could not serve the request, a later existing chunk did
C12_Witness ==
  /\ mgrLast.op = "allocate"
  /\ mgrLast.result = "ok"
  /\ ~mgrLast.created
  /\ mgrLast.chunk >= 2

\* the free-list of the manager's chunk c as a sequence of [start, size] values
ChunkFreeList(c) == [i \in 1..Len(mgrChunks[c]) |-> mgr.areas[mgrChunks[c][i]]]

(***************************************************************************)
(* C25: an allocate call of the manager changes the free-list of at most   *)
(* one chunk, the chunk that serves the request; the free-lists of all     *)
(* other chunks, those tried without success included, are unchanged; a    *)
(* free call changes only the free-list of the sub-chunk's owning chunk.   *)
(***************************************************************************)
C25_OnlyOneChunkChanges ==
  [][/\ \A vertexCount \in 1..MaxVertexCount :
          ManagerAllocate(vertexCount) =>
            \A c \in 1..Len(mgrChunks) :
              c # mgrLast'.chunk => ChunkFreeList(c)' = ChunkFreeList(c)
     /\ \A h \in 1..Len(mgrLive) :
          ManagerFree(h) =>
            \A c \in 1..Len(mgrChunks) :
              c # mgrLive[h].chunk => ChunkFreeList(c)' = ChunkFreeList(c)]_vars

(***************************************************************************)
(* PrimitiveChunk dirty ranges and uploadBuffer                            *)
(***************************************************************************)
\* last 9-float slot a recorded vertex write may start at, slot 0 being the
\* beginning of the buffer
MaxWriteSlot == 0
\* number of vertex writes recorded between two uploads
MaxWrites == 2
\* number of index writes recorded between two uploads
MaxIndexWrites == 2

\* Number.MAX_SAFE_INTEGER / Number.MIN_SAFE_INTEGER: the sentinels of "no
\* write recorded"; integers here are 32 bit wide, so 2^31 - 1 stands for 2^53 - 1
MAX_SAFE_INTEGER == 2147483647

MIN_SAFE_INTEGER == -2147483647

Min(a, b) == IF a < b THEN a ELSE b

Max(a, b) == IF a > b THEN a ELSE b

\* element offsets a vertex write may start at, 5000 being the far write
WriteStarts == {VertexFloats * k : k \in 0..MaxWriteSlot} \cup {5000}

\* lengths of a vertex write: one vertex or one quad
WriteLengths == {VertexFloats, 4 * VertexFloats}

\* index counts of one index write: a triangle or a quad
IndexLengths == {3, 6}

NoUpload == [done |-> FALSE, byteOffset |-> 0, dataOffset |-> 0, dataLength |-> 0]

DirtyInit ==
  /\ updateVertexStart = MAX_SAFE_INTEGER
  /\ updateVertexLength = MIN_SAFE_INTEGER
  /\ updateIndexLength = 0
  /\ written = {}
  /\ indexWrites = <<>>
  /\ vertexUpload = NoUpload
  /\ indexUpload = NoUpload
  /\ flushed = {}
  /\ dirtyPc = "init"

\* the start of the dirty span after a write at vertexStart
recordWriteStart(dirtyStart, vertexStart) == Min(dirtyStart, vertexStart)

\* the length of the dirty span after a write [vertexStart, vertexStart + vertexLength)
recordWriteLength(dirtyStart, dirtyLength, vertexStart, vertexLength) ==
  Max(dirtyLength, vertexStart + vertexLength - dirtyStart)

\* Chunk.recordWrite(vertexStart, vertexLength)
recordWrite(vertexStart, vertexLength) ==
  /\ Cardinality(written) < MaxWrites
  /\ LET newStart == recordWriteStart(updateVertexStart, vertexStart)
     IN /\ updateVertexStart' = newStart
        /\ updateVertexLength' =
             recordWriteLength(newStart, updateVertexLength, vertexStart, vertexLength)
  /\ written' = written \cup {[start |-> vertexStart, len |-> vertexLength]}
  /\ dirtyPc' = "write"
  /\ UNCHANGED <<updateIndexLength, indexWrites, vertexUpload, indexUpload, flushed>>
  /\ UNCHANGED <<chunkVars, maskVars, batchVars, cbVars, restVars>>

\* the index part of a batchRenderElement: len indices stored from
\* startIndex, the dirty length, on
recordIndexWrite(len) ==
  /\ Len(indexWrites) < MaxIndexWrites
  /\ LET startIndex == updateIndexLength
     IN indexWrites' = Append(indexWrites, [start |-> startIndex, len |-> len])
  /\ updateIndexLength' = updateIndexLength + len
  /\ dirtyPc' = "write"
  /\ UNCHANGED <<updateVertexStart, updateVertexLength, written, vertexUpload,
                 indexUpload, flushed>>
  /\ UNCHANGED <<chunkVars, maskVars, batchVars, cbVars, restVars>>

\* variant: the vertex dirty range is kept after the upload
uploadBuffer_keepVertexRange ==
  /\ vertexUpload' =
       IF updateVertexStart # MAX_SAFE_INTEGER /\ updateVertexLength # MIN_SAFE_INTEGER
         THEN [done |-> TRUE, byteOffset |-> updateVertexStart * 4,
               dataOffset |-> updateVertexStart, dataLength |-> updateVertexLength]
         ELSE NoUpload
  /\ indexUpload' = [done |-> TRUE, byteOffset |-> 0, dataOffset |-> 0,
                     dataLength |-> updateIndexLength]
  /\ updateIndexLength' = 0
  /\ flushed' = written
  /\ written' = {}
  /\ indexWrites' = <<>>
  /\ dirtyPc' = "upload"
  /\ UNCHANGED <<updateVertexStart, updateVertexLength>>
  /\ UNCHANGED <<chunkVars, maskVars, batchVars, cbVars, restVars>>

\* variant: the index dirty length is kept after the upload
uploadBuffer_keepIndexLength ==
  /\ IF updateVertexStart # MAX_SAFE_INTEGER /\ updateVertexLength # MIN_SAFE_INTEGER
       THEN /\ vertexUpload' = [done |-> TRUE,
                                byteOffset |-> updateVertexStart * 4,
                                dataOffset |-> updateVertexStart,
                                dataLength |-> updateVertexLength]
            /\ updateVertexStart' = MAX_SAFE_INTEGER
            /\ updateVertexLength' = MIN_SAFE_INTEGER
       ELSE /\ vertexUpload' = NoUpload
            /\ UNCHANGED <<updateVertexStart, updateVertexLength>>
  /\ indexUpload' = [done |-> TRUE, byteOffset |-> 0, dataOffset |-> 0,
                     dataLength |-> updateIndexLength]
  /\ flushed' = written
  /\ written' = {}
  /\ indexWrites' = <<>>
  /\ dirtyPc' = "upload"
  /\ UNCHANGED updateIndexLength
  /\ UNCHANGED <<chunkVars, maskVars, batchVars, cbVars, restVars>>

\* PrimitiveChunk.uploadBuffer()
uploadBuffer ==
  /\ IF updateVertexStart # MAX_SAFE_INTEGER /\ updateVertexLength # MIN_SAFE_INTEGER
       THEN /\ vertexUpload' = [done |-> TRUE,
                                byteOffset |-> updateVertexStart * 4,
                                dataOffset |-> updateVertexStart,
                                dataLength |-> updateVertexLength]
            /\ updateVertexStart' = MAX_SAFE_INTEGER
            /\ updateVertexLength' = MIN_SAFE_INTEGER
       ELSE /\ vertexUpload' = NoUpload
            /\ UNCHANGED <<updateVertexStart, updateVertexLength>>
  /\ indexUpload' = [done |-> TRUE, byteOffset |-> 0, dataOffset |-> 0,
                     dataLength |-> updateIndexLength]
  /\ updateIndexLength' = 0
  /\ flushed' = written
  /\ written' = {}
  /\ indexWrites' = <<>>
  /\ dirtyPc' = "upload"
  /\ UNCHANGED <<chunkVars, maskVars, batchVars, cbVars, restVars>>

RecordWrite == \E s \in WriteStarts, l \in WriteLengths : recordWrite(s, l)

RecordIndexWrite == \E l \in IndexLengths : recordIndexWrite(l)

DirtyNext == RecordWrite \/ RecordIndexWrite \/ uploadBuffer

\* the uploaded vertex range covers the write w
Covers(u, w) ==
  /\ u.done
  /\ u.dataOffset <= w.start
  /\ w.start + w.len <= u.dataOffset + u.dataLength

(***************************************************************************)
(* C4: after uploadBuffer the uploaded vertex range [start, start+length)  *)
(* includes every element written since the previous upload, whatever the  *)
(* order of the writes.                                                    *)
(***************************************************************************)
C4_UploadCoversEveryWrite ==
  dirtyPc = "upload" => \A w \in flushed : Covers(vertexUpload, w)

(***************************************************************************)
(* C22: uploadBuffer uploads vertex data iff a vertex write was recorded   *)
(* since the previous upload, and then exactly the elements                *)
(* [updateVertexStart, updateVertexStart + updateVertexLength) at byte     *)
(* offset updateVertexStart * 4; afterwards both fields hold their         *)
(* sentinels, so an uploadBuffer with no write in between uploads no       *)
(* vertex data.                                                            *)
(***************************************************************************)
C22_VertexUploadIffWritten ==
  [][uploadBuffer =>
       /\ vertexUpload'.done <=> (written # {})
       /\ vertexUpload'.done =>
            /\ vertexUpload'.dataOffset = updateVertexStart
            /\ vertexUpload'.dataLength = updateVertexLength
            /\ vertexUpload'.byteOffset = updateVertexStart * 4
       /\ updateVertexStart' = MAX_SAFE_INTEGER
       /\ updateVertexLength' = MIN_SAFE_INTEGER
       /\ written' = {}]_vars

\* two vertex writes were uploaded as one range that starts after the
\* beginning of the buffer
C22_Witness ==
  /\ dirtyPc = "upload"
  /\ Cardinality(flushed) = 2
  /\ vertexUpload.done
  /\ vertexUpload.dataOffset = 5000
  /\ vertexUpload.byteOffset = 20000
  /\ vertexUpload.dataLength = 4 * VertexFloats
  /\ updateVertexStart = MAX_SAFE_INTEGER

\* the index writes since the last upload follow one another from position 0
IndexWritesAppendFromZero ==
  \A i \in 1..Len(indexWrites) :
    indexWrites[i].start = IF i = 1 THEN 0
                           ELSE indexWrites[i - 1].start + indexWrites[i - 1].len

(***************************************************************************)
(* C23: index writes are append-only between uploads.  Every               *)
(* batchRenderElement stores its indices at [L, L + len), L being the      *)
(* index dirty length before the call, and raises the dirty length to      *)
(* L + len; uploadBuffer uploads the index range [0, dirty length) and     *)
(* resets the dirty length to 0, so the first element batched after an     *)
(* upload starts at 0.                                                     *)
(***************************************************************************)
C23_IndexWritesAppendOnly ==
  [][/\ \A len \in IndexLengths :
          recordIndexWrite(len) =>
            /\ indexWrites'[Len(indexWrites')] = [start |-> updateIndexLength, len |-> len]
            /\ updateIndexLength' = updateIndexLength + len
            /\ IndexWritesAppendFromZero'
     /\ uploadBuffer =>
          /\ indexUpload' = [done |-> TRUE, byteOffset |-> 0, dataOffset |-> 0,
                             dataLength |-> updateIndexLength]
          /\ updateIndexLength' = 0]_vars

\* after an upload of a non-empty index range two elements were batched, the
\* first of them at position 0
C23_Witness ==
  /\ indexUpload.done
  /\ indexUpload.dataLength > 0
  /\ Len(indexWrites) = 2
  /\ indexWrites[1].start = 0
  /\ indexWrites[2].start > 0

(***************************************************************************)
(* C24: uploadBuffer is a no-op when nothing changed.  With no vertex      *)
(* write and no index write since the previous upload it issues no buffer  *)
(* upload call, neither for the vertex buffer nor for the index buffer.    *)
(***************************************************************************)
C24_UploadNoOpWhenClean ==
  [][(uploadBuffer /\ written = {} /\ indexWrites = <<>>) =>
       (~vertexUpload'.done /\ ~indexUpload'.done)]_vars

(***************************************************************************)
(* MaskManager                                                             *)
(***************************************************************************)
\* length of the element array handed to insertMask
MaxElements == 4
\* number of sprite masks registered with the manager
MaxMasks == 2
\* length of the element arrays of the alpha-test and the transparent queue
MaxLaterElements == 2

\* the queues CullingResults.processRenderElements processes in turn
QueuePasses == 3

\* mask layer bit sets of renderers and masks (two layer bits)
LayerValues == 1..3

\* a & b on non-negative integers
RECURSIVE BitAnd(_, _)
BitAnd(a, b) ==
  IF a = 0 \/ b = 0 THEN 0
  ELSE (a % 2) * (b % 2) + 2 * BitAnd(a \div 2, b \div 2)

\* a & ~b on non-negative integers
RECURSIVE BitAndNot(_, _)
BitAndNot(a, b) ==
  IF a = 0 THEN 0
  ELSE (a % 2) * (1 - (b % 2)) + 2 * BitAndNot(a \div 2, b \div 2)

\* the renderers of the input elements: without mask interaction, or inside a
\* mask on one of the layer sets
MaskRenderers ==
  {[maskInteraction |-> "None", maskLayer |-> 1]}
    \cup {[maskInteraction |-> "VisibleInsideMask", maskLayer |-> l] : l \in LayerValues}

SeqsUpTo(S, n) == UNION {[1..k -> S] : k \in 0..n}

\* output entries: an input element, or the clone of a mask's render element
ElementEntry(i) == [element |-> i, mask |-> 0, stencilOperation |-> "None"]

CloneEntry(m, op) == [element |-> 0, mask |-> m, stencilOperation |-> op]

\* variant of the mask loop: the addLayer test comes before the commonLayer test
RECURSIVE masksDiffLoop_addFirst(_, _, _, _, _)
masksDiffLoop_addFirst(i, masks, commonLayer, addLayer, reduceLayer) ==
  IF i > Len(masks) THEN <<>>
  ELSE LET influenceLayers == masks[i]
           rest == masksDiffLoop_addFirst(i + 1, masks, commonLayer, addLayer, reduceLayer)
       IN IF BitAnd(influenceLayers, addLayer) # 0
            THEN <<CloneEntry(i, "IncrementSaturate")>> \o rest
            ELSE IF BitAnd(influenceLayers, commonLayer) # 0 THEN rest
            ELSE IF BitAnd(influenceLayers, reduceLayer) # 0
              THEN <<CloneEntry(i, "DecrementSaturate")>> \o rest
              ELSE rest

\* the mask loop of _processMasksDiff from mask i on: the clones it pushes
RECURSIVE masksDiffLoop(_, _, _, _, _)
masksDiffLoop(i, masks, commonLayer, addLayer, reduceLayer) ==
  IF i > Len(masks) THEN <<>>
  ELSE LET influenceLayers == masks[i]
           rest == masksDiffLoop(i + 1, masks, commonLayer, addLayer, reduceLayer)
       IN IF BitAnd(influenceLayers, commonLayer) # 0 THEN rest
          ELSE IF BitAnd(influenceLayers, addLayer) # 0
            THEN <<CloneEntry(i, "IncrementSaturate")>> \o rest
            ELSE IF BitAnd(influenceLayers, reduceLayer) # 0
              THEN <<CloneEntry(i, "DecrementSaturate")>> \o rest
              ELSE rest

\* the same loop without the reduceLayer branch
RECURSIVE masksDiffLoop_noReduce(_, _, _, _, _)
masksDiffLoop_noReduce(i, masks, commonLayer, addLayer, reduceLayer) ==
  IF i > Len(masks) THEN <<>>
  ELSE LET influenceLayers == masks[i]
           rest == masksDiffLoop_noReduce(i + 1, masks, commonLayer, addLayer, reduceLayer)
       IN IF BitAnd(influenceLayers, commonLayer) # 0 THEN rest
          ELSE IF BitAnd(influenceLayers, addLayer) # 0
            THEN <<CloneEntry(i, "IncrementSaturate")>> \o rest
            ELSE rest

\* variant: the diff is always taken against layer 0
processMasksDiff_fromZero(preLayer, curMaskLayer, masks) ==
  masksDiffLoop(1, masks, 0, curMaskLayer, 0)

\* MaskManager._processMasksDiff: the clones pushed for a renderer on curMaskLayer
processMasksDiff_noReduce(preLayer, curMaskLayer, masks) ==
  IF preLayer # curMaskLayer
    THEN masksDiffLoop_noReduce(1, masks,
                                BitAnd(preLayer, curMaskLayer),
                                BitAndNot(curMaskLayer, preLayer),
                                BitAndNot(preLayer, curMaskLayer))
    ELSE <<>>

processMasksDiff(preLayer, curMaskLayer, masks) ==
  IF preLayer # curMaskLayer
    THEN masksDiffLoop(1, masks,
                       BitAnd(preLayer, curMaskLayer),
                       BitAndNot(curMaskLayer, preLayer),
                       BitAndNot(preLayer, curMaskLayer))
    ELSE <<>>

\* the five renderers of the scenario: mask layers 1, 1, 3, 3, 1
ScenarioElements ==
  [i \in 1..5 |-> [maskInteraction |-> "VisibleInsideMask",
                   maskLayer |-> <<1, 1, 3, 3, 1>>[i]]]

\* a cleared manager with its masks registered, about to run insertMask on
\* the first queue: any short element array, or the scenario's
MaskInit ==
  /\ allSpriteMasks \in SeqsUpTo(LayerValues, MaxMasks)
  /\ preMaskLayer = 0
  /\ elements \in SeqsUpTo(MaskRenderers, MaxElements) \cup {ScenarioElements}
  /\ maskIndex = 1
  /\ maskInsertedElements = <<>>
  /\ maskPc = "run"
  /\ maskQueue = 1

MaskIdle ==
  /\ allSpriteMasks = <<>>
  /\ preMaskLayer = 0
  /\ elements = <<>>
  /\ maskIndex = 1
  /\ maskInsertedElements = <<>>
  /\ maskPc = "idle"
  /\ maskQueue = 1

\* variant of insertMask: the renderer's element is pushed before its clones
insertMask_elementFirst ==
  /\ maskPc = "run"
  /\ IF Len(elements) = 0
       THEN /\ maskPc' = "done"
            /\ UNCHANGED <<preMaskLayer, maskIndex, maskInsertedElements>>
       ELSE LET renderer == elements[maskIndex]
                maskable == renderer.maskInteraction # "None"
                clones == IF maskable
                            THEN processMasksDiff(preMaskLayer, renderer.maskLayer,
                                                  allSpriteMasks)
                            ELSE <<>>
            IN /\ maskInsertedElements' =
                    maskInsertedElements \o <<ElementEntry(maskIndex)>> \o clones
               /\ preMaskLayer' = IF maskable THEN renderer.maskLayer ELSE preMaskLayer
               /\ maskIndex' = maskIndex + 1
               /\ maskPc' = IF maskIndex = Len(elements) THEN "done" ELSE "run"
  /\ UNCHANGED <<allSpriteMasks, elements, maskQueue>>
  /\ UNCHANGED <<chunkVars, dirtyVars, batchVars, cbVars, restVars>>

\* MaskManager.insertMask: one iteration of its loop (the early return on an
\* empty array included)
insertMask ==
  /\ maskPc = "run"
  /\ IF Len(elements) = 0
       THEN /\ maskPc' = "done"
            /\ UNCHANGED <<preMaskLayer, maskIndex, maskInsertedElements>>
       ELSE LET renderer == elements[maskIndex]
                maskable == renderer.maskInteraction # "None"
                clones == IF maskable
                            THEN processMasksDiff(preMaskLayer, renderer.maskLayer,
                                                  allSpriteMasks)
                            ELSE <<>>
            IN /\ maskInsertedElements' =
                    maskInsertedElements \o clones \o <<ElementEntry(maskIndex)>>
               /\ preMaskLayer' = IF maskable THEN renderer.maskLayer ELSE preMaskLayer
               /\ maskIndex' = maskIndex + 1
               /\ maskPc' = IF maskIndex = Len(elements) THEN "done" ELSE "run"
  /\ UNCHANGED <<allSpriteMasks, elements, maskQueue>>
  /\ UNCHANGED <<chunkVars, dirtyVars, batchVars, cbVars, restVars>>

\* the next queue of the frame is processed: insertMask is called with that
\* queue's elements and a new output array, the manager is not cleared
nextQueuePass ==
  /\ maskPc = "done"
  /\ maskQueue < QueuePasses
  /\ maskQueue' = maskQueue + 1
  /\ elements' \in SeqsUpTo(MaskRenderers, MaxLaterElements)
  /\ maskIndex' = 1
  /\ maskInsertedElements' = <<>>
  /\ maskPc' = "run"
  /\ UNCHANGED <<allSpriteMasks, preMaskLayer>>
  /\ UNCHANGED <<chunkVars, dirtyVars, batchVars, cbVars, restVars>>

MaskNext == insertMask \/ nextQueuePass

\* the stencil contribution of mask m after the output `out': +1 for each of
\* its increment clones, -1 for each of its decrement clones
RECURSIVE Contribution(_, _)
Contribution(m, out) ==
  IF out = <<>> THEN 0
  ELSE LET e == out[Len(out)]
           before == Contribution(m, SubSeq(out, 1, Len(out) - 1))
       IN IF e.mask # m THEN before
          ELSE IF e.stencilOperation = "IncrementSaturate" THEN before + 1
          ELSE before - 1

(***************************************************************************)
(* C5: when a renderer with mask interaction is appended to the output,    *)
(* every mask's stencil contribution is 1 if its influenceLayers intersect *)
(* the renderer's maskLayer and 0 otherwise.                               *)
(***************************************************************************)
C5_ContributionMatchesLayer ==
  (maskInsertedElements # <<>> /\
   elements[maskInsertedElements[Len(maskInsertedElements)].element].maskInteraction # "None")
    => \A m \in 1..Len(allSpriteMasks) :
         Contribution(m, maskInsertedElements) =
           (IF BitAnd(allSpriteMasks[m],
                      elements[maskInsertedElements[Len(maskInsertedElements)].element].maskLayer) # 0
              THEN 1 ELSE 0)

ScenarioRun == elements = ScenarioElements /\ allSpriteMasks = <<1, 2>>

(***************************************************************************)
(* C10: for mask layers [1,1,3,3,1] and masks with influenceLayers 1 and 2 *)
(* insertMask emits one increment clone of the second mask at the 1-to-3   *)
(* boundary, one decrement clone of it at the 3-to-1 boundary and no clone *)
(* at the 1-to-1 and 3-to-3 steps.                                         *)
(***************************************************************************)
C10_ScenarioClones ==
  (ScenarioRun /\ maskPc = "done") =>
    maskInsertedElements =
      << CloneEntry(1, "IncrementSaturate"), ElementEntry(1), ElementEntry(2),
         CloneEntry(2, "IncrementSaturate"), ElementEntry(3), ElementEntry(4),
         CloneEntry(2, "DecrementSaturate"), ElementEntry(5) >>

C10_Witness == ScenarioRun /\ maskPc = "done" /\ Len(maskInsertedElements) = 8

\* the renderer of the element insertMask's loop is at, and the layers its
\* diff against the previous mask layer is made of
CurRenderer == elements[maskIndex]

Maskable == CurRenderer.maskInteraction # "None"

CommonLayer == BitAnd(preMaskLayer, CurRenderer.maskLayer)

AddLayer == BitAndNot(CurRenderer.maskLayer, preMaskLayer)

ReduceLayer == BitAndNot(preMaskLayer, CurRenderer.maskLayer)

\* a step of insertMask that processes an element
MaskStep == insertMask /\ Len(elements) > 0

\* the entries a step pushed before the last one
StepClones ==
  SubSeq(maskInsertedElements', Len(maskInsertedElements) + 1,
         Len(maskInsertedElements') - 1)

\* the stencil operations of the clones of mask m pushed in a step
StepOps(m) ==
  {StepClones[k].stencilOperation :
     k \in {j \in 1..Len(StepClones) : StepClones[j].mask = m}}

\* the number of clones of mask m pushed in a step
StepCount(m) == Cardinality({j \in 1..Len(StepClones) : StepClones[j].mask = m})

(***************************************************************************)
(* C26: in one step of the mask diff a mask whose influenceLayers          *)
(* intersect both addLayer and reduceLayer, and not commonLayer, gets both *)
(* an increment clone and a decrement clone.                               *)
(***************************************************************************)
C26_AddAndReduceEmitBoth ==
  [][(MaskStep /\ Maskable) =>
       \A m \in 1..Len(allSpriteMasks) :
         (/\ BitAnd(allSpriteMasks[m], AddLayer) # 0
          /\ BitAnd(allSpriteMasks[m], ReduceLayer) # 0
          /\ BitAnd(allSpriteMasks[m], CommonLayer) = 0) =>
           StepOps(m) = {"IncrementSaturate", "DecrementSaturate"}]_vars

(***************************************************************************)
(* C27: the previous mask layer is 0 at the start of every queue pass:     *)
(* each insertMask call starts its diff from layer 0, whatever mask layer  *)
(* the last maskable renderer of the previous call had.                    *)
(***************************************************************************)
C27_EveryPassStartsAtZero ==
  (maskPc = "run" /\ maskIndex = 1) => preMaskLayer = 0

\* the maskable elements of the running insertMask call before its loop index
MaskableBefore ==
  {j \in 1..(maskIndex - 1) : elements[j].maskInteraction # "None"}

(***************************************************************************)
(* C28: a maskable renderer whose maskLayer equals the previous mask layer *)
(* gets no clone, whatever masks are registered; clones are pushed only at *)
(* steps where the layer differs from the layer of the previous maskable   *)
(* renderer.                                                               *)
(***************************************************************************)
C28_NoCloneOnSameLayer ==
  [][(MaskStep /\ Maskable) =>
       /\ CurRenderer.maskLayer = preMaskLayer => StepClones = <<>>
       /\ (StepClones # <<>> /\ MaskableBefore # {}) =>
            CurRenderer.maskLayer #
              elements[CHOOSE j \in MaskableBefore :
                         \A k \in MaskableBefore : k <= j].maskLayer]_vars

\* two maskable renderers on one layer were processed in the first pass, a
\* registered mask influencing that layer: the mask was cloned once
C28_Witness ==
  /\ maskQueue = 1
  /\ maskIndex = 3
  /\ elements[1].maskInteraction # "None"
  /\ elements[2].maskInteraction # "None"
  /\ elements[1].maskLayer = elements[2].maskLayer
  /\ \E m \in 1..Len(allSpriteMasks) :
       BitAnd(allSpriteMasks[m], elements[2].maskLayer) # 0
  /\ Len(maskInsertedElements) = 3
  /\ maskInsertedElements[3] = ElementEntry(2)

IsElementEntry(e) == e.element # 0

\* the input elements processed so far are in the output once each, in order
InputPreserved ==
  SelectSeq(maskInsertedElements, IsElementEntry) =
    [i \in 1..(IF maskPc = "idle" THEN 0 ELSE maskIndex - 1) |-> ElementEntry(i)]

(***************************************************************************)
(* C29: insertMask preserves its input.  Every input element is in the     *)
(* output exactly once, in the input's order; the clones made for a        *)
(* renderer stand immediately before that renderer's element; a renderer   *)
(* without mask interaction gets no clone and leaves the previous mask     *)
(* layer unchanged; after a maskable renderer the previous mask layer is   *)
(* its maskLayer.                                                          *)
(***************************************************************************)
C29_InsertMaskPreservesInput ==
  /\ []InputPreserved
  /\ [][MaskStep =>
          /\ Len(maskInsertedElements') > Len(maskInsertedElements)
          /\ SubSeq(maskInsertedElements', 1, Len(maskInsertedElements)) =
               maskInsertedElements
          /\ maskInsertedElements'[Len(maskInsertedElements')] = ElementEntry(maskIndex)
          /\ \A k \in 1..Len(StepClones) : ~IsElementEntry(StepClones[k])
          /\ IF Maskable
               THEN preMaskLayer' = CurRenderer.maskLayer
               ELSE StepClones = <<>> /\ preMaskLayer' = preMaskLayer]_vars

\* a call returned whose input mixes renderers with and without mask
\* interaction and whose output holds clones
C29_Witness ==
  /\ maskPc = "done"
  /\ Len(elements) >= 3
  /\ \E i \in 1..Len(elements) : elements[i].maskInteraction = "None"
  /\ elements[Len(elements)].maskInteraction # "None"
  /\ Len(maskInsertedElements) >= Len(elements) + 2
  /\ ~IsElementEntry(maskInsertedElements[Len(maskInsertedElements) - 1])

(***************************************************************************)
(* C30: in one step of the mask diff a mask whose influenceLayers          *)
(* intersect commonLayer gets no clone, even when they also intersect      *)
(* addLayer or reduceLayer; otherwise a mask that intersects addLayer gets *)
(* one increment-saturate clone; a mask that intersects only reduceLayer   *)
(* gets one decrement-saturate clone; a mask that intersects none of the   *)
(* three gets nothing.                                                     *)
(***************************************************************************)
C30_CloneByLayerClass ==
  [][(MaskStep /\ Maskable) =>
       \A m \in 1..Len(allSpriteMasks) :
         IF BitAnd(allSpriteMasks[m], CommonLayer) # 0
           THEN StepCount(m) = 0
           ELSE IF BitAnd(allSpriteMasks[m], AddLayer) # 0
             THEN StepCount(m) = 1 /\ StepOps(m) = {"IncrementSaturate"}
             ELSE IF BitAnd(allSpriteMasks[m], ReduceLayer) # 0
               THEN StepCount(m) = 1 /\ StepOps(m) = {"DecrementSaturate"}
               ELSE StepCount(m) = 0]_vars

\* at the step from layer 1 to layer 3 the mask on both layers, which
\* intersects commonLayer and addLayer, got no clone and the mask on layer 2 an
\* increment clone
C30_Witness ==
  /\ allSpriteMasks = <<3, 2>>
  /\ maskIndex = 3
  /\ elements[1].maskLayer = 1
  /\ elements[2].maskLayer = 3
  /\ maskInsertedElements =
       << CloneEntry(1, "IncrementSaturate"), ElementEntry(1),
          CloneEntry(2, "IncrementSaturate"), ElementEntry(2) >>

(***************************************************************************)
(* Render elements, sub-chunks and the renderers' _canBatch                *)
(***************************************************************************)
\* length of the element array handed to batch
MaxBatch == 3
\* number of sub-chunks the elements may refer to
NumSubChunks == 3

\* byte stride of one vertex in the vertex buffer binding
VertexStride == 36

\* values an index array (Uint16Array) can hold
Uint16Range == 65536

SubChunkIds == 1..NumSubChunks

\* the mesh buffer a sub-chunk lives in: two sub-chunks per buffer
MeshBufferOf(c) == (c + 1) \div 2

MeshBuffers == {MeshBufferOf(c) : c \in SubChunkIds}

\* vertices of a sub-chunk: one quad for the first of a buffer, two for the second
VertexCountOf(c) == IF c % 2 = 1 THEN 4 ELSE 8

\* chunk._vEntry.start: the second sub-chunk of a buffer follows the first
VEntryStart(c) == IF c % 2 = 1 THEN 0 ELSE 4 * VertexFloats

\* chunk._vEntry.len
VEntryLen(c) == VertexCountOf(c) * VertexFloats

\* chunk._primitive.vertexBufferBindings[0].offset, in bytes
VertexBindingOffset(c) == VEntryStart(c) * 4

\* chunk._primitive.vertexBufferBindings[0].size, in bytes
VertexBindingSize(c) == VEntryLen(c) * 4

\* the triangle indices an assembler writes for quads number from..to
RECURSIVE QuadIndices(_, _)
QuadIndices(from, to) ==
  IF from > to THEN <<>>
  ELSE LET count == 4 * (from - 1)
       IN <<count, count + 1, count + 2, count + 2, count + 1, count + 3>>
            \o QuadIndices(from + 1, to)

\* chunk._indices: the locally numbered indices of the sub-chunk
TempIndices(c) == QuadIndices(1, VertexCountOf(c) \div 4)

SpriteMaskInteraction == {"None", "VisibleInsideMask", "VisibleOutsideMask"}

\* a render element: its data's usage, chunk, texture and material, its
\* renderer's mask interaction, mask layer and alpha cutoff, and its stencil
\* operation
RenderElement(usage, chunk, texture, material, interaction, layer, op) ==
  [usage |-> usage, chunk |-> chunk, texture |-> texture, material |-> material,
   maskInteraction |-> interaction, maskLayer |-> layer, alphaCutoff |-> 1,
   stencilOperation |-> op]

\* SpriteRenderer._canBatch without the mask layer comparison
spriteCanBatch_noLayer(a, b) ==
  IF MeshBufferOf(a.chunk) # MeshBufferOf(b.chunk) THEN FALSE
  ELSE IF a.maskInteraction # b.maskInteraction THEN FALSE
  ELSE a.texture = b.texture /\ a.material = b.material

\* variant: the mask interactions of the two renderers are not compared
spriteCanBatch_layerOnly(a, b) ==
  IF MeshBufferOf(a.chunk) # MeshBufferOf(b.chunk) THEN FALSE
  ELSE IF a.maskInteraction # "None" /\ a.maskLayer # b.maskLayer
    THEN FALSE
    ELSE a.texture = b.texture /\ a.material = b.material

\* SpriteRenderer._canBatch; TextRenderer._canBatch is the same test on
\* chunk._data
spriteCanBatch(a, b) ==
  IF MeshBufferOf(a.chunk) # MeshBufferOf(b.chunk) THEN FALSE
  ELSE IF \/ a.maskInteraction # b.maskInteraction
          \/ (a.maskInteraction # "None" /\ a.maskLayer # b.maskLayer)
    THEN FALSE
    ELSE a.texture = b.texture /\ a.material = b.material

\* SpriteMask._canBatch
maskCanBatch(a, b) ==
  IF MeshBufferOf(a.chunk) # MeshBufferOf(b.chunk) THEN FALSE
  ELSE a.texture = b.texture /\ a.alphaCutoff = b.alphaCutoff

\* preRenderer._canBatch(a, b), dispatched on the renderer of a
canBatch(a, b) ==
  IF a.usage = "SpriteMask" THEN maskCanBatch(a, b) ELSE spriteCanBatch(a, b)

(***************************************************************************)
(* _canBatch applied to a pair of sprite or text elements                  *)
(***************************************************************************)
CanBatchElements ==
  {RenderElement(u, c, t, m, mi, ml, "None") :
     u \in {"Sprite", "Text"}, c \in SubChunkIds, t \in 1..2, m \in 1..2,
     mi \in SpriteMaskInteraction, ml \in 1..2}

CanBatchInit ==
  /\ cbA \in CanBatchElements
  /\ cbB \in {e \in CanBatchElements : e.usage = cbA.usage}
  /\ cbResult = FALSE
  /\ cbPc = "call"

CanBatchIdle ==
  /\ cbA = RenderElement("Sprite", 1, 1, 1, "None", 1, "None")
  /\ cbB = RenderElement("Sprite", 1, 1, 1, "None", 1, "None")
  /\ cbResult = FALSE
  /\ cbPc = "idle"

callCanBatch ==
  /\ cbPc = "call"
  /\ cbResult' = canBatch(cbA, cbB)
  /\ cbPc' = "done"
  /\ UNCHANGED <<cbA, cbB>>
  /\ UNCHANGED <<chunkVars, dirtyVars, maskVars, batchVars, restVars>>

CanBatchNext == callCanBatch

(***************************************************************************)
(* C8: _canBatch of sprite and text elements returns true only if both     *)
(* target the same chunk buffer, have equal maskInteraction and, unless it *)
(* is None, equal maskLayer, and have the same texture and material.       *)
(***************************************************************************)
C8_CanBatchOnlyIfSameState ==
  (cbPc = "done" /\ cbResult) =>
    /\ MeshBufferOf(cbA.chunk) = MeshBufferOf(cbB.chunk)
    /\ cbA.maskInteraction = cbB.maskInteraction
    /\ (cbA.maskInteraction # "None" => cbA.maskLayer = cbB.maskLayer)
    /\ cbA.texture = cbB.texture
    /\ cbA.material = cbB.material

C8_Witness ==
  /\ cbPc = "done"
  /\ cbResult
  /\ cbA.maskInteraction = "VisibleInsideMask"
  /\ cbA.chunk # cbB.chunk

(***************************************************************************)
(* C36: _canBatch of sprite and text elements is an equivalence relation:  *)
(* it is reflexive and symmetric, and when it holds for a run head and its *)
(* predecessor-to-be, every next element can be batched with the one iff   *)
(* it can be batched with the other (transitivity), so comparing with the  *)
(* run head merges the same elements as comparing with the predecessor.    *)
(***************************************************************************)
C36_CanBatchIsEquivalence ==
  cbPc = "done" =>
    /\ canBatch(cbA, cbA)
    /\ canBatch(cbB, cbB)
    /\ cbResult = canBatch(cbB, cbA)
    /\ cbResult => \A next \in CanBatchElements :
                     canBatch(cbA, next) = canBatch(cbB, next)

\* two different elements without mask interaction, on different mask layers
\* and sub-chunks, can be batched
C36_Witness ==
  /\ cbPc = "done"
  /\ cbResult
  /\ cbA.maskInteraction = "None"
  /\ cbA.maskLayer # cbB.maskLayer
  /\ cbA.chunk # cbB.chunk
  /\ \E next \in CanBatchElements : next # cbA /\ next # cbB /\ canBatch(cbB, next)

(***************************************************************************)
(* BatcherManager.batch                                                    *)
(***************************************************************************)
\* the elements batch is run on: sprite and text elements, and the clones of
\* sprite masks with their stencil operation
BatchInputs ==
  {RenderElement(u, c, t, 1, "None", 1, "None") :
     u \in {"Sprite", "Text"}, c \in SubChunkIds, t \in 1..2}
    \cup {RenderElement("SpriteMask", c, 1, 1, "None", 1, op) :
            c \in SubChunkIds, op \in {"IncrementSaturate", "DecrementSaturate"}}

\* seq with vals stored from (0-based) position pos on
WriteAt(seq, pos, vals) ==
  [k \in 1..Max(Len(seq), pos + Len(vals)) |->
     IF k > pos /\ k <= pos + Len(vals) THEN vals[k - pos]
     ELSE IF k <= Len(seq) THEN seq[k] ELSE 0]

\* vertexStartIndex of _batchRenderElement, taken from the first element's chunk
vertexStartIndex_ofFirst(a, b) ==
  IF a.usage = "Text"
    THEN VertexBindingOffset(a.chunk) \div VertexStride
    ELSE VEntryStart(a.chunk) \div VertexFloats

\* vertexStartIndex of _batchRenderElement(a, b): b is a when elementB is absent
vertexStartIndex(a, b) ==
  IF a.usage = "Text"
    THEN VertexBindingOffset(b.chunk) \div VertexStride
    ELSE VEntryStart(b.chunk) \div VertexFloats

\* the end of the vertex range _batchRenderElement records for chunk c
vertexEnd(a, c) ==
  IF a.usage = "Text"
    THEN VertexBindingOffset(c) \div 4 + VertexBindingSize(c) \div 4
    ELSE VEntryStart(c) + VEntryLen(c)

\* variant: the indices of elementB are counted on elementB's own sub-mesh
batchRenderElement_countOnB(a, b, hasB, sm, ind, il, vl) ==
  LET chunk == IF hasB THEN b.chunk ELSE a.chunk
      buf == MeshBufferOf(chunk)
      tempIndices == TempIndices(chunk)
      start == vertexStartIndex(a, IF hasB THEN b ELSE a)
      len == Len(tempIndices)
      startIndex == il[buf]
  IN [subMesh |-> IF hasB
                    THEN [sm EXCEPT ![chunk].count = sm[chunk].count + len]
                    ELSE [sm EXCEPT ![chunk] = [start |-> startIndex, count |-> len]],
      meshIndices |-> [ind EXCEPT ![buf] =
                         WriteAt(ind[buf], startIndex,
                                 [k \in 1..len |-> (start + tempIndices[k]) % Uint16Range])],
      iLen |-> [il EXCEPT ![buf] = il[buf] + len],
      vLen |-> [vl EXCEPT ![buf] = Max(vl[buf], vertexEnd(a, chunk))]]

\* preRenderer._batchRenderElement(elementA, elementB), hasB telling whether
\* elementB was passed: the new sub-meshes, index arrays and dirty lengths
batchRenderElement(a, b, hasB, sm, ind, il, vl) ==
  LET chunk == IF hasB THEN b.chunk ELSE a.chunk
      buf == MeshBufferOf(chunk)
      tempIndices == TempIndices(chunk)
      start == vertexStartIndex(a, IF hasB THEN b ELSE a)
      len == Len(tempIndices)
      startIndex == il[buf]
  IN [subMesh |-> IF hasB
                    THEN [sm EXCEPT ![a.chunk].count = sm[a.chunk].count + len]
                    ELSE [sm EXCEPT ![chunk] = [start |-> startIndex, count |-> len]],
      meshIndices |-> [ind EXCEPT ![buf] =
                         WriteAt(ind[buf], startIndex,
                                 [k \in 1..len |-> (start + tempIndices[k]) % Uint16Range])],
      iLen |-> [il EXCEPT ![buf] = il[buf] + len],
      vLen |-> [vl EXCEPT ![buf] = Max(vl[buf], vertexEnd(a, chunk))]]

\* the test of batch's loop without the usage comparison
shouldFold_noUsage(pre, cur) == canBatch(pre, cur)

\* the test of batch's loop: fold cur into the accumulator pre
shouldFold(pre, cur) == pre.usage = cur.usage /\ canBatch(pre, cur)

\* _preRenderElement when it is null or undefined
NoElement == [usage |-> "none"]

\* SpriteMaskBatcher after construction or clear
MaskBatcherBlank ==
  /\ batchedQueue = <<>>
  /\ stencilOps = <<>>
  /\ preRenderElement = NoElement
  /\ preOp = "null"
  /\ drawCalls = <<>>
  /\ maskBatcherPc = "draw"

BatchBlank ==
  /\ MaskBatcherBlank
  /\ batchIndex = 1
  /\ preElement = 0
  /\ batchedElements = <<>>
  /\ subMesh = [c \in SubChunkIds |-> [start |-> 0, count |-> 0]]
  /\ meshIndices = [b \in MeshBuffers |-> <<>>]
  /\ iLen = [b \in MeshBuffers |-> 0]
  /\ vLen = [b \in MeshBuffers |-> 0]
  /\ folds = <<>>

\* a sub-chunk belongs to one renderer, and a renderer commits one element
\* per sub-chunk: only the clones of a mask share a sub-chunk, and the clones
\* insertMask emits next to each other are clones of different masks
OwnSubChunks(seq) ==
  \A i, j \in 1..Len(seq) :
    (i < j /\ seq[i].chunk = seq[j].chunk) =>
      (seq[i].usage = "SpriteMask" /\ seq[j].usage = "SpriteMask" /\ j > i + 1)

BatchInit ==
  /\ batchElements \in {seq \in SeqsUpTo(BatchInputs, MaxBatch) : OwnSubChunks(seq)}
  /\ BatchBlank
  /\ batchPc = "run"

BatchIdle ==
  /\ batchElements = <<>>
  /\ BatchBlank
  /\ batchPc = "idle"

\* BatcherManager.batch: one iteration of its loop; the early return on an
\* empty array and the push of the last accumulator after the last iteration
\* included
batch ==
  /\ batchPc = "run"
  /\ IF Len(batchElements) = 0
       THEN /\ batchPc' = "done"
            /\ UNCHANGED <<batchIndex, preElement, batchedElements, subMesh,
                           meshIndices, iLen, vLen, folds>>
       ELSE LET curElement == batchElements[batchIndex]
                fold == preElement # 0 /\ shouldFold(batchElements[preElement], curElement)
                newPre == IF fold THEN preElement ELSE batchIndex
                r == IF fold
                       THEN batchRenderElement(batchElements[preElement], curElement, TRUE,
                                               subMesh, meshIndices, iLen, vLen)
                       ELSE batchRenderElement(curElement, curElement, FALSE,
                                               subMesh, meshIndices, iLen, vLen)
                flushed1 == IF preElement # 0 /\ ~fold
                              THEN Append(batchedElements, preElement)
                              ELSE batchedElements
                last == batchIndex = Len(batchElements)
            IN /\ preElement' = newPre
               /\ subMesh' = r.subMesh
               /\ meshIndices' = r.meshIndices
               /\ iLen' = r.iLen
               /\ vLen' = r.vLen
               /\ folds' = IF fold
                             THEN Append(folds, [acc |-> preElement, next |-> batchIndex])
                             ELSE folds
               /\ batchedElements' = IF last THEN Append(flushed1, newPre) ELSE flushed1
               /\ batchIndex' = batchIndex + 1
               /\ batchPc' = IF last THEN "done" ELSE "run"
  /\ UNCHANGED <<batchElements, maskBatcherVars>>
  /\ UNCHANGED <<chunkVars, dirtyVars, maskVars, cbVars, restVars>>

BatchNext == batch

(***************************************************************************)
(* C6: batch never folds an element into an accumulator whose              *)
(* stencilOperation differs from its own.                                  *)
(***************************************************************************)
C6_FoldOnlyEqualStencil ==
  \A k \in 1..Len(folds) :
    batchElements[folds[k].acc].stencilOperation =
      batchElements[folds[k].next].stencilOperation

\* the heads of the runs of seq, the run being headed by element `head':
\* an element joins the run iff it has the head's usage and the head's
\* renderer can batch it with the head
RECURSIVE RunHeadsFrom(_, _, _)
RunHeadsFrom(seq, head, i) ==
  IF i > Len(seq) THEN <<head>>
  ELSE IF seq[head].usage = seq[i].usage /\ canBatch(seq[head], seq[i])
    THEN RunHeadsFrom(seq, head, i + 1)
    ELSE <<head>> \o RunHeadsFrom(seq, i, i + 1)

RunHeads(seq) == IF seq = <<>> THEN <<>> ELSE RunHeadsFrom(seq, 1, 2)

(***************************************************************************)
(* C7: batch outputs the run heads in input order: the next element is     *)
(* folded iff it has the accumulator's usage and canBatch(accumulator,     *)
(* next) holds, the last accumulator is appended at the end, and an empty  *)
(* input leaves the output unchanged.                                      *)
(***************************************************************************)
C7_OutputIsRunHeads ==
  batchPc = "done" => batchedElements = RunHeads(batchElements)

C7_Witness ==
  /\ batchPc = "done"
  /\ Len(batchElements) = 3
  /\ batchedElements = <<1, 3>>
  /\ folds = <<[acc |-> 1, next |-> 2]>>
  /\ batchElements[1].usage = batchElements[3].usage

\* the first two input elements are sprite or text elements with the same
\* texture, material, mask layer and mask interaction on the same buffer
TwinHead ==
  /\ Len(batchElements) >= 2
  /\ batchIndex = 3
  /\ batchElements[1].usage \in {"Sprite", "Text"}
  /\ batchElements[2].usage = batchElements[1].usage
  /\ batchElements[2].texture = batchElements[1].texture
  /\ batchElements[2].material = batchElements[1].material
  /\ batchElements[2].maskLayer = batchElements[1].maskLayer
  /\ batchElements[2].maskInteraction = batchElements[1].maskInteraction
  /\ MeshBufferOf(batchElements[2].chunk) = MeshBufferOf(batchElements[1].chunk)

(***************************************************************************)
(* C9: two elements with the same texture, material, mask layer and mask   *)
(* interaction on the same chunk buffer are batched; after                 *)
(* batchRenderElement(first) and batchRenderElement(first, second) the     *)
(* first's draw count is the sum of both index counts and every index      *)
(* appended for the second is its local index plus the second's own        *)
(* vertex-area start / 9.                                                  *)
(***************************************************************************)
C9_TwinsMergeWithOwnOffset ==
  TwinHead =>
    LET first == batchElements[1]
        second == batchElements[2]
        buf == MeshBufferOf(second.chunk)
        len1 == Len(TempIndices(first.chunk))
        len2 == Len(TempIndices(second.chunk))
    IN /\ preElement = 1
       /\ folds = <<[acc |-> 1, next |-> 2]>>
       /\ subMesh[first.chunk].count = len1 + len2
       /\ \A k \in 1..len2 :
            meshIndices[buf][len1 + k] =
              TempIndices(second.chunk)[k] + VEntryStart(second.chunk) \div VertexFloats

C9_Witness ==
  /\ TwinHead
  /\ batchElements[1].usage = "Text"
  /\ VEntryStart(batchElements[1].chunk) > VEntryStart(batchElements[2].chunk)
  /\ subMesh[batchElements[1].chunk].count = 18

\* every input element has a sub-chunk of its own
EveryElementOwnsItsSubChunk ==
  \A i, j \in 1..Len(batchElements) :
    i # j => batchElements[i].chunk # batchElements[j].chunk

\* the input elements drawn by the output element headed by h
RunOf(h) == {h} \cup {folds[k].next : k \in {n \in 1..Len(folds) : folds[n].acc = h}}

\* the draw range of the output element headed by h
DrawRange(h) == subMesh[batchElements[h].chunk]

\* the indices of the input element i as the renderer of h stores them
ElementIndices(h, i) ==
  [k \in 1..Len(TempIndices(batchElements[i].chunk)) |->
     (vertexStartIndex(batchElements[h], batchElements[i])
        + TempIndices(batchElements[i].chunk)[k]) % Uint16Range]

\* the indices of the elements of RunOf(h) from the input position i on
RECURSIVE RunIndices(_, _)
RunIndices(h, i) ==
  IF i > Len(batchElements) THEN <<>>
  ELSE (IF i \in RunOf(h) THEN ElementIndices(h, i) ELSE <<>>) \o RunIndices(h, i + 1)

\* the output elements that target the mesh buffer b, in output order
RECURSIVE OutputOf(_, _)
OutputOf(b, k) ==
  IF k > Len(batchedElements) THEN <<>>
  ELSE (IF MeshBufferOf(batchElements[batchedElements[k]].chunk) = b
          THEN <<batchedElements[k]>> ELSE <<>>) \o OutputOf(b, k + 1)

\* the draw ranges of the output elements outs follow one another from 0 to
\* the index dirty length len
Contiguous(outs, len) ==
  /\ outs # <<>> => DrawRange(outs[1]).start = 0
  /\ \A k \in 1..(Len(outs) - 1) :
       /\ DrawRange(outs[k]).count > 0
       /\ DrawRange(outs[k + 1]).start = DrawRange(outs[k]).start + DrawRange(outs[k]).count
  /\ len = IF outs = <<>> THEN 0
           ELSE DrawRange(outs[Len(outs)]).start + DrawRange(outs[Len(outs)]).count

(***************************************************************************)
(* C35: after batch over elements that each have a sub-chunk of their own, *)
(* the draw ranges [start, start + count) of the output elements of one    *)
(* mesh buffer are disjoint, follow one another in output order and cover  *)
(* exactly [0, index dirty length); every input element is drawn by        *)
(* exactly one output element, whose draw range holds its indices.         *)
(***************************************************************************)
C35_DrawRangesPartitionIndices ==
  (batchPc = "done" /\ EveryElementOwnsItsSubChunk) =>
    /\ \A b \in MeshBuffers : Contiguous(OutputOf(b, 1), iLen[b])
    /\ \A i \in 1..Len(batchElements) :
         Cardinality({k \in 1..Len(batchedElements) : i \in RunOf(batchedElements[k])}) = 1
    /\ \A k \in 1..Len(batchedElements) :
         SubSeq(meshIndices[MeshBufferOf(batchElements[batchedElements[k]].chunk)],
                DrawRange(batchedElements[k]).start + 1,
                DrawRange(batchedElements[k]).start + DrawRange(batchedElements[k]).count)
           = RunIndices(batchedElements[k], 1)

\* two output elements of one mesh buffer with an element of another buffer
\* between them
C35_Witness ==
  /\ batchPc = "done"
  /\ EveryElementOwnsItsSubChunk
  /\ Len(batchedElements) = 3
  /\ Len(OutputOf(MeshBufferOf(batchElements[1].chunk), 1)) = 2
  /\ DrawRange(3).start > 0

(***************************************************************************)
(* SpriteMaskBatcher: drawElement folds the sprite mask elements of one    *)
(* stencil operation into runs, uploadAndDraw queues the last run and      *)
(* draws the queue.  The mesh buffers are those of the batch above.        *)
(***************************************************************************)
\* number of drawElement calls between two clear calls
MaxMaskDraws == 3

\* the stencil operations the masks are drawn with
MaskStencilOps == {"IncrementSaturate", "DecrementSaturate"}

\* the render elements of sprite masks
MaskElements ==
  {RenderElement("SpriteMask", c, t, 1, "None", 1, "None") :
     c \in SubChunkIds, t \in 1..2}

MaskBatcherInit ==
  /\ batchElements = <<>>
  /\ BatchBlank
  /\ batchPc = "idle"

\* the mesh buffers after preRenderer._batchRenderElement returned r
MeshBuffersBecome(r) ==
  /\ subMesh' = r.subMesh
  /\ meshIndices' = r.meshIndices
  /\ iLen' = r.iLen
  /\ vLen' = r.vLen

\* drawElement when _preRenderElement is set: element is merged into it
drawElementMerged(element, op) ==
  /\ MeshBuffersBecome(batchRenderElement(preRenderElement, element, TRUE,
                                          subMesh, meshIndices, iLen, vLen))
  /\ drawCalls' = Append(drawCalls, [element |-> element, op |-> op, merged |-> TRUE])
  /\ UNCHANGED <<batchedQueue, stencilOps, preRenderElement, preOp>>

\* drawElement when _preRenderElement is set: it is queued and element
\* takes its place
drawElementQueued(element, op) ==
  /\ batchedQueue' = Append(batchedQueue, preRenderElement)
  /\ stencilOps' = Append(stencilOps, preOp)
  /\ preRenderElement' = element
  /\ MeshBuffersBecome(batchRenderElement(element, element, FALSE,
                                          subMesh, meshIndices, iLen, vLen))
  /\ drawCalls' = Append(drawCalls, [element |-> element, op |-> op, merged |-> FALSE])
  /\ UNCHANGED preOp

\* drawElement when _preRenderElement is not set
drawElementFirst(element, op) ==
  /\ preRenderElement' = element
  /\ preOp' = op
  /\ MeshBuffersBecome(batchRenderElement(element, element, FALSE,
                                          subMesh, meshIndices, iLen, vLen))
  /\ drawCalls' = Append(drawCalls, [element |-> element, op |-> op, merged |-> FALSE])
  /\ UNCHANGED <<batchedQueue, stencilOps>>

\* SpriteMaskBatcher.drawElement(element, camera, op)
drawElement(element, op) ==
  /\ maskBatcherPc = "draw"
  /\ Len(drawCalls) < MaxMaskDraws
  /\ IF preRenderElement # NoElement
       THEN IF preOp = op /\ canBatch(preRenderElement, element)
              THEN drawElementMerged(element, op)
              ELSE drawElementQueued(element, op)
       ELSE drawElementFirst(element, op)
  /\ UNCHANGED <<maskBatcherPc, batchElements, batchIndex, preElement, batchedElements,
                 folds, batchPc>>
  /\ UNCHANGED <<chunkVars, dirtyVars, maskVars, cbVars, restVars>>

\* SpriteMaskBatcher.uploadAndDraw(camera)
uploadAndDraw ==
  /\ maskBatcherPc = "draw"
  /\ IF preRenderElement # NoElement
       THEN /\ batchedQueue' = Append(batchedQueue, preRenderElement)
            /\ stencilOps' = Append(stencilOps, preOp)
       ELSE UNCHANGED <<batchedQueue, stencilOps>>
  /\ maskBatcherPc' = "drawn"
  /\ UNCHANGED <<preRenderElement, preOp, drawCalls>>
  /\ UNCHANGED <<batchElements, batchIndex, preElement, batchedElements, subMesh,
                 meshIndices, iLen, vLen, folds, batchPc>>
  /\ UNCHANGED <<chunkVars, dirtyVars, maskVars, cbVars, restVars>>

\* SpriteMaskBatcher.clear(): the queue, the stencil operations and the
\* accumulator are reset, the mesh buffers start over
clearMaskBatcher ==
  /\ maskBatcherPc = "drawn"
  /\ batchedQueue' = <<>>
  /\ stencilOps' = <<>>
  /\ preRenderElement' = NoElement
  /\ preOp' = "null"
  /\ drawCalls' = <<>>
  /\ maskBatcherPc' = "draw"
  /\ subMesh' = [c \in SubChunkIds |-> [start |-> 0, count |-> 0]]
  /\ meshIndices' = [b \in MeshBuffers |-> <<>>]
  /\ iLen' = [b \in MeshBuffers |-> 0]
  /\ vLen' = [b \in MeshBuffers |-> 0]
  /\ UNCHANGED <<batchElements, batchIndex, preElement, batchedElements, folds,
                 batchPc>>
  /\ UNCHANGED <<chunkVars, dirtyVars, maskVars, cbVars, restVars>>

MaskBatcherNext ==
  \/ \E element \in MaskElements, op \in MaskStencilOps : drawElement(element, op)
  \/ uploadAndDraw
  \/ clearMaskBatcher

\* the drawElement calls that started a run, in call order
RECURSIVE RunStarts(_)
RunStarts(k) ==
  IF k > Len(drawCalls) THEN <<>>
  ELSE (IF drawCalls[k].merged THEN <<>> ELSE <<k>>) \o RunStarts(k + 1)

\* the call that started the run the call k belongs to
RECURSIVE RunStartOf(_)
RunStartOf(k) == IF drawCalls[k].merged THEN RunStartOf(k - 1) ELSE k

(***************************************************************************)
(* C37: _batchedQueue and _stencilOps have equal length; an element is     *)
(* merged only when its op equals the op of the current run and canBatch   *)
(* holds with the run's first element; after uploadAndDraw the queue holds *)
(* the first element of every run and the stencil op at position i is the  *)
(* op that was passed to drawElement with the first element of run i.      *)
(***************************************************************************)
C37_StencilOpOfEveryRun ==
  /\ Len(batchedQueue) = Len(stencilOps)
  /\ \A k \in 1..Len(drawCalls) :
       drawCalls[k].merged =>
         /\ drawCalls[k].op = drawCalls[RunStartOf(k)].op
         /\ canBatch(drawCalls[RunStartOf(k)].element, drawCalls[k].element)
  /\ maskBatcherPc = "drawn" =>
       /\ Len(batchedQueue) = Len(RunStarts(1))
       /\ \A i \in 1..Len(batchedQueue) :
            /\ batchedQueue[i] = drawCalls[RunStarts(1)[i]].element
            /\ stencilOps[i] = drawCalls[RunStarts(1)[i]].op

(***************************************************************************)
(* Specifications: each component runs on its own, the others stay idle    *)
(***************************************************************************)
(***************************************************************************)
(* ClearableObjectPool                                                     *)
(***************************************************************************)
\* number of get / clear calls explored
MaxPoolOps == 10

\* the variables of the allocator and of the batching pipeline
pipelineVars == <<chunkVars, dirtyVars, maskVars, batchVars, cbVars>>

PoolInit ==
  /\ poolElements = <<>>
  /\ usedElementCount = 0
  /\ poolHanded = <<>>
  /\ poolOps = 0

\* variant: get() hands out the first stored element whenever one is stored
ClearableGet_first(elems, used) ==
  IF Len(elems) = 0
    THEN [element |-> 1, elements |-> Append(elems, 1), used |-> used + 1]
    ELSE [element |-> elems[1], elements |-> elems, used |-> used + 1]

\* ClearableObjectPool.get(): element, _elements and _usedElementCount after it;
\* a constructed element takes the next identity
ClearableGet(elems, used) ==
  IF Len(elems) = used
    THEN [element |-> Len(elems) + 1,
          elements |-> Append(elems, Len(elems) + 1),
          used |-> used + 1]
    ELSE [element |-> elems[used + 1], elements |-> elems, used |-> used + 1]

\* the pool after a get() that returned g
PoolGot(g) ==
  /\ poolElements' = g.elements
  /\ usedElementCount' = g.used
  /\ poolHanded' = Append(poolHanded, g.element)

\* ClearableObjectPool.get()
get ==
  /\ poolOps < MaxPoolOps
  /\ PoolGot(ClearableGet(poolElements, usedElementCount))
  /\ poolOps' = poolOps + 1
  /\ UNCHANGED <<pipelineVars, mgrVars, rendVars, tileVars>>

\* ClearableObjectPool.clear()
clear ==
  /\ poolOps < MaxPoolOps
  /\ usedElementCount' = 0
  /\ poolHanded' = <<>>
  /\ poolOps' = poolOps + 1
  /\ UNCHANGED poolElements
  /\ UNCHANGED <<pipelineVars, mgrVars, rendVars, tileVars>>

PoolNext == get \/ clear

\* the elements of a sequence
Range(s) == {s[i] : i \in 1..Len(s)}

(***************************************************************************)
(* C17: between two clear() calls no two get() calls return the same       *)
(* element, the used count never exceeds the number of stored elements,    *)
(* and an element is constructed only when every stored element is already *)
(* checked out.                                                            *)
(***************************************************************************)
C17_OneLiveCheckoutPerSlot ==
  [][/\ \A i, j \in 1..Len(poolHanded') : i # j => poolHanded'[i] # poolHanded'[j]
     /\ usedElementCount' <= Len(poolElements')
     /\ Len(poolElements') > Len(poolElements) =>
          /\ usedElementCount = Len(poolElements)
          /\ Range(poolElements) \subseteq Range(poolHanded)]_vars

\* after a clear() stored elements were handed out again, then one was constructed
C17_Witness ==
  /\ Len(poolHanded) = 3
  /\ Len(poolElements) = 3
  /\ poolOps >= 6

(***************************************************************************)
(* The renderers' sub-chunks.  `leases' lists every sub-chunk a renderer   *)
(* got from allocateChunk, with the number of freeChunk calls made on it.  *)
(***************************************************************************)
\* number of renderer calls explored
MaxRendererOps == 6
\* number of glyphs of a text
MaxGlyphs == 2
\* number of quads of a tiled sprite
MaxQuads == 2

\* font textures a glyph may come from
GlyphTextures == 1..2

RendererInit ==
  /\ leases = <<>>
  /\ charRenderInfos = <<>>
  /\ spriteChunk = 0
  /\ textDestroyed = FALSE
  /\ spriteDestroyed = FALSE
  /\ rendOps = 0

\* allocateChunk(vCount) for the owner: the new sub-chunk is the last of the result
allocateChunk(ls, owner, vCount) ==
  Append(ls, [owner |-> owner, len |-> vCount * VertexFloats, frees |-> 0])

\* freeChunk(chunk)
freeChunk(ls, chunk) == [ls EXCEPT ![chunk].frees = @ + 1]

\* freeChunk on each chunk of a sequence, as the loops of the text renderer do
freeChunks(ls, chunks) ==
  [i \in 1..Len(ls) |->
     [ls[i] EXCEPT !.frees = @ + Cardinality({k \in 1..Len(chunks) : chunks[k] = i})]]

\* variant: the chunk of another size is replaced without being freed
resetData_noFree(chunk, ls, vCount) ==
  IF vCount # 0 /\ (chunk = 0 \/ ls[chunk].len # vCount * VertexFloats)
    THEN [chunk |-> Len(ls) + 1, leases |-> allocateChunk(ls, "sprite", vCount)]
    ELSE [chunk |-> chunk, leases |-> ls]

\* TiledSpriteAssembler.resetData(renderer, vCount): renderer._chunk and the
\* sub-chunks after it
resetData(chunk, ls, vCount) ==
  IF vCount # 0
    THEN IF chunk # 0
           THEN IF ls[chunk].len # vCount * VertexFloats
                  THEN [chunk |-> Len(ls) + 1,
                        leases |-> allocateChunk(freeChunk(ls, chunk), "sprite", vCount)]
                  ELSE [chunk |-> chunk, leases |-> ls]
           ELSE [chunk |-> Len(ls) + 1, leases |-> allocateChunk(ls, "sprite", vCount)]
    ELSE [chunk |-> chunk, leases |-> ls]

\* the renderer after resetData left it as r
SpriteBecomes(r) ==
  /\ spriteChunk' = r.chunk
  /\ leases' = r.leases

\* a tiled sprite is resized: updatePositions calls resetData with the new count
ResetData(vCount) ==
  /\ rendOps < MaxRendererOps
  /\ ~spriteDestroyed
  /\ SpriteBecomes(resetData(spriteChunk, leases, vCount))
  /\ rendOps' = rendOps + 1
  /\ UNCHANGED <<charRenderInfos, textDestroyed, spriteDestroyed>>
  /\ UNCHANGED <<pipelineVars, mgrVars, poolVars, tileVars>>

\* SpriteRenderer._onDestroy
SpriteOnDestroy ==
  /\ rendOps < MaxRendererOps
  /\ ~spriteDestroyed
  /\ leases' = IF spriteChunk # 0 THEN freeChunk(leases, spriteChunk) ELSE leases
  /\ spriteChunk' = 0
  /\ spriteDestroyed' = TRUE
  /\ rendOps' = rendOps + 1
  /\ UNCHANGED <<charRenderInfos, textDestroyed>>
  /\ UNCHANGED <<pipelineVars, mgrVars, poolVars, tileVars>>

\* the chunks of the entries k of a sequence of CharRenderInfo with k > from
ChunksAfter(infos, from) == [k \in 1..(Len(infos) - from) |-> infos[from + k].chunk]

\* charRenderInfos.sort by texture (the sort is stable), textures from t upwards
RECURSIVE SortByTexture(_, _)
SortByTexture(infos, t) ==
  IF t \notin GlyphTextures
    THEN <<>>
    ELSE SelectSeq(infos, LAMBDA e : e.texture = t) \o SortByTexture(infos, t + 1)

\* _updateLocalData's loop over the glyphs: entry k is reused with its chunk when
\* it exists; a new entry comes from the pool without a chunk and init() allocates
\* one for it
GlyphEntries(infos, ls, glyphs) ==
  [k \in 1..Len(glyphs) |->
     [chunk |-> IF k <= Len(infos) THEN infos[k].chunk ELSE Len(ls) + (k - Len(infos)),
      texture |-> glyphs[k]]]

\* the sub-chunks after that loop: one allocateChunk(4) for every new entry
GlyphLeases(infos, ls, glyphs) ==
  ls \o [k \in 1..(Len(glyphs) - Len(infos)) |->
           [owner |-> "text", len |-> 4 * VertexFloats, frees |-> 0]]

\* TextRenderer._updateLocalData for a text of Len(glyphs) visible glyphs
UpdateLocalData(glyphs) ==
  /\ rendOps < MaxRendererOps
  /\ ~textDestroyed
  /\ charRenderInfos' = SortByTexture(GlyphEntries(charRenderInfos, leases, glyphs), 1)
  /\ leases' = freeChunks(GlyphLeases(charRenderInfos, leases, glyphs),
                          ChunksAfter(charRenderInfos, Len(glyphs)))
  /\ rendOps' = rendOps + 1
  /\ UNCHANGED <<spriteChunk, textDestroyed, spriteDestroyed>>
  /\ UNCHANGED <<pipelineVars, mgrVars, poolVars, tileVars>>

\* TextRenderer._onDestroy
TextOnDestroy ==
  /\ rendOps < MaxRendererOps
  /\ ~textDestroyed
  /\ leases' = freeChunks(leases, ChunksAfter(charRenderInfos, 0))
  /\ charRenderInfos' = <<>>
  /\ textDestroyed' = TRUE
  /\ rendOps' = rendOps + 1
  /\ UNCHANGED <<spriteChunk, spriteDestroyed>>
  /\ UNCHANGED <<pipelineVars, mgrVars, poolVars, tileVars>>

TextChange == \E glyphs \in SeqsUpTo(GlyphTextures, MaxGlyphs) : UpdateLocalData(glyphs)

SpriteResize == \E quads \in 0..MaxQuads : ResetData(4 * quads)

RendererNext == TextChange \/ SpriteResize \/ TextOnDestroy \/ SpriteOnDestroy

\* sub-chunk i is referenced by a renderer
Held(i) ==
  \/ spriteChunk = i
  \/ \E k \in 1..Len(charRenderInfos) : charRenderInfos[k].chunk = i

(***************************************************************************)
(* C13: every sub-chunk a renderer allocated is freed exactly once: it is  *)
(* never freed twice, it is not freed while its renderer still uses it,    *)
(* and once its renderer dropped it or was destroyed it has been freed.    *)
(***************************************************************************)
C13_SubChunksFreedExactlyOnce ==
  /\ \A i \in 1..Len(leases) :
       /\ leases[i].frees <= 1
       /\ Held(i) => leases[i].frees = 0
       /\ ~Held(i) => leases[i].frees = 1
  /\ textDestroyed => charRenderInfos = <<>>
  /\ spriteDestroyed => spriteChunk = 0

\* both renderers were destroyed after a text shrank and a tiled sprite was resized
C13_Witness ==
  /\ textDestroyed
  /\ spriteDestroyed
  /\ \E i, j \in 1..Len(leases) :
       /\ i # j
       /\ leases[i].owner = "sprite"
       /\ leases[j].owner = "sprite"
  /\ \E i, j \in 1..Len(leases) :
       /\ i # j
       /\ leases[i].owner = "text"
       /\ leases[j].owner = "text"

(***************************************************************************)
(* TiledSpriteAssembler: the dividing of a tiled sprite into rows and      *)
(* columns.  Lengths are whole multiples of MathUtil.zeroTolerance, border *)
(* and threshold are fractions with the denominators below; a position is  *)
(* the fraction [num, den], with den = 0 when it was divided by zero.      *)
(***************************************************************************)
\* largest small width / height of the renderer
MaxTileSize == 5
\* largest border, in BorderDenominator-ths of the sprite
MaxBorder == 1

BorderDenominator == 2

ThresholdDenominator == 2

\* MathUtil.zeroTolerance, the unit of the lengths
ZeroTolerance == 1

\* Batcher2D.MAX_VERTEX_COUNT
MAX_VERTEX_COUNT == 4096

\* a length that makes one axis several hundred tiles long
LargeLength == 1400

\* widths and heights of the renderer (nonzero, SpriteRenderer._render)
TileLengths == (1..MaxTileSize) \cup {LargeLength}

\* widths (and heights) of the sprite
SpriteSizes == {BorderDenominator * k : k \in 1..2}

NaN == "NaN"

\* sprite._getPositions(): the sprite is not trimmed
SpriteLeft == 0

SpriteRight == 1

\* the fraction a + b * (sn / sd)
Scaled(a, b, sn, sd) == [num |-> a * sd + b * sn, den |-> sd]

\* a position computed without a division
Whole(a) == [num |-> a, den |-> 1]

\* fixedL / fixedB, fixedR / fixedT, fixedLR / fixedTB and fixedCW / fixedCH of
\* one axis
FixedOf(expect, borderFirst, borderLast) ==
  [expect |-> expect,
   first |-> (expect * borderFirst) \div BorderDenominator,
   last |-> (expect * borderLast) \div BorderDenominator,
   both |-> (expect * borderFirst) \div BorderDenominator
              + (expect * borderLast) \div BorderDenominator,
   center |-> expect - ((expect * borderFirst) \div BorderDenominator
                          + (expect * borderLast) \div BorderDenominator)]

\* rRepeatCount % 1 >= threshold ? Math.ceil(rRepeatCount) : Math.floor(rRepeatCount)
\* for rRepeatCount = span / center
RoundByThreshold(span, center, threshold) ==
  IF (span % center) * ThresholdDenominator >= threshold * center
    THEN IF span % center = 0 THEN span \div center ELSE span \div center + 1
    ELSE span \div center

\* variant: the center is tested before the borders
AdaptiveType_centerFirst(length, f, threshold) ==
  IF f.center > ZeroTolerance /\ f.both < length
    THEN [type |-> "WithTiled",
          vertCount |-> 4 + RoundByThreshold(length - f.both, f.center, threshold) - 1,
          repeatCount |-> RoundByThreshold(length - f.both, f.center, threshold),
          divisors |-> <<f.center>>]
    ELSE IF f.center > ZeroTolerance
      THEN [type |-> "Compressed", vertCount |-> 3, repeatCount |-> 0, divisors |-> <<>>]
      ELSE [type |-> "WithoutTiled", vertCount |-> 4, repeatCount |-> 0,
            divisors |-> <<>>]

\* _calculateAdaptiveDividing: type, vertex count and repeat count of one axis,
\* with the denominators of the divisions made
AdaptiveType(length, f, threshold) ==
  IF f.both >= length
    THEN [type |-> "Compressed", vertCount |-> 3, repeatCount |-> 0, divisors |-> <<>>]
    ELSE IF f.center > ZeroTolerance
      THEN [type |-> "WithTiled",
            vertCount |-> 4 + RoundByThreshold(length - f.both, f.center, threshold) - 1,
            repeatCount |-> RoundByThreshold(length - f.both, f.center, threshold),
            divisors |-> <<f.center>>]
      ELSE [type |-> "WithoutTiled", vertCount |-> 4, repeatCount |-> 0,
            divisors |-> <<>>]

\* _calculateContinuousDividing: the same for the continuous mode,
\* repeatCount = rRepeatCount | 0
ContinuousType(length, f) ==
  IF f.both >= length
    THEN [type |-> "Compressed", vertCount |-> 3, repeatCount |-> 0, divisors |-> <<>>]
    ELSE IF f.center > ZeroTolerance
      THEN [type |-> "WithTiled",
            vertCount |-> 4 + (length - f.both) \div f.center,
            repeatCount |-> (length - f.both) \div f.center,
            divisors |-> <<f.center>>]
      ELSE [type |-> "WithoutTiled", vertCount |-> 4, repeatCount |-> 0,
            divisors |-> <<>>]

\* the Compressed case of both modes
CompressedAxis(length, f) ==
  [pos |-> <<Scaled(0, f.expect * SpriteLeft, length, f.both),
             Scaled(0, f.first, length, f.both),
             Scaled(length, -(f.expect * (1 - SpriteRight)), length, f.both)>>,
   uv |-> <<"uv0", "uv1", "uv2", "uv3">>,
   scale |-> [num |-> length, den |-> f.both],
   divisors |-> <<f.both>>]

\* the WithoutTiled case of both modes
WithoutTiledAxis(length, f) ==
  [pos |-> <<Whole(f.expect * SpriteLeft), Whole(f.first), Whole(length - f.last),
             Whole(length - f.expect * (1 - SpriteRight))>>,
   uv |-> <<"uv0", "uv1", NaN, NaN, "uv2", "uv3">>,
   scale |-> [num |-> 1, den |-> 1],
   divisors |-> <<>>]

\* the WithTiled case of the adaptive mode: n repeats, scale = length / sd
AdaptiveTiledAxis(length, f, n, sd) ==
  [pos |-> <<Scaled(0, f.expect * SpriteLeft, length, sd),
             Scaled(0, f.first, length, sd)>>
           \o [i \in 1..(n - 1) |-> Scaled(f.first, i * f.center, length, sd)]
           \o <<Scaled(length, -f.last, length, sd),
                Scaled(length, -(f.expect * (1 - SpriteRight)), length, sd)>>,
   uv |-> <<"uv0", "uv1", "uv1">>
          \o [k \in 1..(2 * (n - 1)) |-> IF k % 2 = 1 THEN "uv2" ELSE "uv1"]
          \o <<"uv2", "uv2", "uv3">>,
   scale |-> [num |-> length, den |-> sd],
   divisors |-> <<sd>>]

\* the WithTiled case of the continuous mode: countInteger = n
ContinuousTiledAxis(length, f, n) ==
  [pos |-> <<Whole(f.expect * SpriteLeft), Whole(f.first)>>
           \o [i \in 1..n |-> Whole(f.first + i * f.center)]
           \o <<Whole(length - f.last), Whole(length - f.expect * (1 - SpriteRight))>>,
   uv |-> <<"uv0", "uv1", "uv1">>
          \o [k \in 1..(2 * n) |-> IF k % 2 = 1 THEN "uv2" ELSE "uv1"]
          \o <<"uvPartial", "uv2", "uv3">>,
   scale |-> [num |-> 1, den |-> 1],
   divisors |-> <<>>]

\* the switch over the type of one axis
AxisOf(tileMode, length, f, t) ==
  IF t.type = "Compressed"
    THEN CompressedAxis(length, f)
    ELSE IF t.type = "WithoutTiled"
      THEN WithoutTiledAxis(length, f)
      ELSE IF tileMode = "Adaptive"
        THEN AdaptiveTiledAxis(length, f, t.repeatCount,
                               f.both + t.repeatCount * f.center)
        ELSE ContinuousTiledAxis(length, f, t.repeatCount)

\* the type of one axis in the renderer's tile mode
TypeOf(tileMode, length, f, threshold) ==
  IF tileMode = "Adaptive" THEN AdaptiveType(length, f, threshold)
                           ELSE ContinuousType(length, f)

\* variant: the axes are used whatever the estimated vertex count is
DividingBy_noPlaceholder(in, r, c, row, column) ==
  [posRow |-> row.pos, posColumn |-> column.pos,
   uvRow |-> row.uv, uvColumn |-> column.uv,
   row |-> r, column |-> c, warned |-> FALSE,
   rowScale |-> row.scale,
   divisors |-> r.divisors \o c.divisors \o row.divisors \o column.divisors]

\* the division by the types r and c: the placeholder when the estimated vertex
\* count exceeds MAX_VERTEX_COUNT, else the axes row and column
DividingBy(in, r, c, row, column) ==
  IF (r.vertCount - 1) * (c.vertCount - 1) * 4 > MAX_VERTEX_COUNT
    THEN [posRow |-> <<Whole(in.width * SpriteLeft), Whole(in.width * SpriteRight)>>,
          posColumn |-> <<Whole(in.height * SpriteLeft), Whole(in.height * SpriteRight)>>,
          uvRow |-> <<"uv0", "uv3">>,
          uvColumn |-> <<"uv0", "uv3">>,
          row |-> r, column |-> c, warned |-> TRUE,
          rowScale |-> [num |-> 1, den |-> 1],
          divisors |-> r.divisors \o c.divisors]
    ELSE [posRow |-> row.pos, posColumn |-> column.pos,
          uvRow |-> row.uv, uvColumn |-> column.uv,
          row |-> r, column |-> c, warned |-> FALSE,
          rowScale |-> row.scale,
          divisors |-> r.divisors \o c.divisors \o row.divisors \o column.divisors]

\* the axes of the types r and c
DividingOfTypes(in, fw, fh, r, c) ==
  DividingBy(in, r, c, AxisOf(in.tileMode, in.width, fw, r),
             AxisOf(in.tileMode, in.height, fh, c))

\* _calculateAdaptiveDividing / _calculateContinuousDividing on the axes fw, fh
DividingOfAxes(in, fw, fh) ==
  DividingOfTypes(in, fw, fh, TypeOf(in.tileMode, in.width, fw, in.threshold),
                  TypeOf(in.tileMode, in.height, fh, in.threshold))

\* the dividing of the renderer `in'
Dividing(in) ==
  DividingOfAxes(in, FixedOf(in.expect, in.border.x, in.border.z),
                 FixedOf(in.expect, in.border.y, in.border.w))

\* updatePositions' count of the vertices: 4 for every cell whose uvs are numbers
CountVertices(pr, pc, ur, uc) ==
  4 * Cardinality({cell \in (0..(Len(pr) - 2)) \X (0..(Len(pc) - 2)) :
                     /\ ur[2 * cell[1] + 1] # NaN
                     /\ ur[2 * cell[1] + 2] # NaN
                     /\ uc[2 * cell[2] + 2] # NaN})

TileInputs ==
  [tileMode : {"Adaptive", "Continuous"},
   width : TileLengths,
   height : TileLengths,
   expect : SpriteSizes,
   border : [x : 0..MaxBorder, y : 0..MaxBorder, z : 0..MaxBorder, w : 0..MaxBorder],
   threshold : 0..ThresholdDenominator]

\* no scene of several tiled renderers
SceneIdle ==
  /\ sceneRenderers = <<>>
  /\ sceneWrites = <<>>
  /\ sceneOps = 0

NoDivision == [row |-> "none", column |-> "none", warned |-> FALSE,
               rowScale |-> [num |-> 1, den |-> 1], divisors |-> <<>>]

TileInit ==
  /\ tileIn \in TileInputs
  /\ posRow = <<>>
  /\ posColumn = <<>>
  /\ uvRow = <<>>
  /\ uvColumn = <<>>
  /\ tileDivision = NoDivision
  /\ tileVertexCount = 0
  /\ tilePc = "call"
  /\ SceneIdle

TileIdle ==
  /\ tileIn = [tileMode |-> "Adaptive", width |-> 1, height |-> 1, expect |-> 2,
               border |-> [x |-> 0, y |-> 0, z |-> 0, w |-> 0], threshold |-> 1]
  /\ posRow = <<>>
  /\ posColumn = <<>>
  /\ uvRow = <<>>
  /\ uvColumn = <<>>
  /\ tileDivision = NoDivision
  /\ tileVertexCount = 0
  /\ tilePc = "call"
  /\ SceneIdle

\* the scratch arrays and the renderer after the dividing d and resetData
Divided(d) ==
  /\ posRow' = d.posRow
  /\ posColumn' = d.posColumn
  /\ uvRow' = d.uvRow
  /\ uvColumn' = d.uvColumn
  /\ tileDivision' = [row |-> d.row, column |-> d.column, warned |-> d.warned,
                      rowScale |-> d.rowScale, divisors |-> d.divisors]
  /\ tileVertexCount' = CountVertices(d.posRow, d.posColumn, d.uvRow, d.uvColumn)
  /\ SpriteBecomes(resetData(spriteChunk, leases,
                             CountVertices(d.posRow, d.posColumn, d.uvRow, d.uvColumn)))

\* TiledSpriteAssembler.updatePositions(renderer)
updatePositions ==
  /\ tilePc = "call"
  /\ Divided(Dividing(tileIn))
  /\ tilePc' = "done"
  /\ UNCHANGED <<tileIn, charRenderInfos, textDestroyed, spriteDestroyed, rendOps>>
  /\ UNCHANGED <<pipelineVars, mgrVars, poolVars, sceneVars>>

TileNext == updatePositions

(***************************************************************************)
(* C14: for every tiled sprite, in either mode, the vertex count that      *)
(* updatePositions passes to resetData never exceeds MAX_VERTEX_COUNT.     *)
(***************************************************************************)
C14_VertexCountWithinLimit ==
  tilePc = "done" => tileVertexCount <= MAX_VERTEX_COUNT

(***************************************************************************)
(* C15: no division of the dividing step has a denominator that is zero or *)
(* within zeroTolerance of zero.                                           *)
(***************************************************************************)
C15_NoDivisionByNearZero ==
  \A k \in 1..Len(tileDivision.divisors) : tileDivision.divisors[k] > ZeroTolerance

\* the row axis of the renderer
RowFixed == FixedOf(tileIn.expect, tileIn.border.x, tileIn.border.z)

\* adaptive mode, no stretchable center, width below the borders' width
CompressedRowCase ==
  /\ tilePc = "done"
  /\ tileIn.tileMode = "Adaptive"
  /\ RowFixed.center <= ZeroTolerance
  /\ tileIn.width < RowFixed.both

(***************************************************************************)
(* C16 as stated: in adaptive dividing, with fixedCW <= zeroTolerance and  *)
(* width < fixedLR, the row division is the Compressed case: exactly three *)
(* row positions, computed with the scale width / fixedLR.                 *)
(***************************************************************************)
C16_CompressedRow ==
  CompressedRowCase =>
    /\ tileDivision.row.type = "Compressed"
    /\ Len(posRow) = 3
    /\ tileDivision.rowScale = [num |-> tileIn.width, den |-> RowFixed.both]

(***************************************************************************)
(* C16 amended: in that case the row type is Compressed, never WithTiled,  *)
(* and unless the estimated vertex count exceeds MAX_VERTEX_COUNT (the     *)
(* placeholder of two row positions is substituted) the row has exactly    *)
(* three positions computed with the scale width / fixedLR.                *)
(***************************************************************************)
C16_CompressedRowUnlessPlaceholder ==
  CompressedRowCase =>
    /\ tileDivision.row.type = "Compressed"
    /\ IF tileDivision.warned
         THEN Len(posRow) = 2
         ELSE /\ Len(posRow) = 3
              /\ tileDivision.rowScale = [num |-> tileIn.width, den |-> RowFixed.both]
              /\ posRow[2] = [num |-> RowFixed.first * tileIn.width,
                              den |-> RowFixed.both]

\* the compressed row was computed, next to a tiled column
C16_Witness ==
  /\ CompressedRowCase
  /\ ~tileDivision.warned
  /\ tileDivision.column.type = "WithTiled"

\* the vertex count the dividing estimates from the vertex counts of its axes
EstimatedVertexCount ==
  (tileDivision.row.vertCount - 1) * (tileDivision.column.vertCount - 1) * 4

(***************************************************************************)
(* C31: when the estimated vertex count (rVertCount - 1) * (cVertCount -   *)
(* 1) * 4 exceeds MAX_VERTEX_COUNT the dividing logs a warning and returns *)
(* the placeholder: exactly two row positions and two column positions,    *)
(* the nominal bounds of the sprite, which updatePositions turns into one  *)
(* quad of 4 vertices.                                                     *)
(***************************************************************************)
C31_PlaceholderWhenOverLimit ==
  (tilePc = "done" /\ EstimatedVertexCount > MAX_VERTEX_COUNT) =>
    /\ tileDivision.warned
    /\ posRow = <<Whole(tileIn.width * SpriteLeft), Whole(tileIn.width * SpriteRight)>>
    /\ posColumn = <<Whole(tileIn.height * SpriteLeft),
                     Whole(tileIn.height * SpriteRight)>>
    /\ Len(uvRow) = 2
    /\ Len(uvColumn) = 2
    /\ tileVertexCount = 4
    /\ spriteChunk # 0
    /\ leases[spriteChunk].len = 4 * VertexFloats

\* both axes of a continuous sprite are several hundred tiles long
C31_Witness ==
  /\ tilePc = "done"
  /\ EstimatedVertexCount > MAX_VERTEX_COUNT
  /\ tileIn.tileMode = "Continuous"
  /\ tileIn.width = LargeLength
  /\ tileIn.height = LargeLength
  /\ tileDivision.row.type = "WithTiled"
  /\ tileDivision.column.type = "WithTiled"
  /\ tileVertexCount = 4

(***************************************************************************)
(* A scene of several tiled SpriteRenderers.  They share the assembler's   *)
(* static arrays posRow, posColumn, uvRow and uvColumn; _render calls the  *)
(* assembler for the flags set in the renderer's _dirtyUpdateFlag.         *)
(***************************************************************************)
\* number of tiled renderers of the scene
NumTiledRenderers == 2
\* largest width of a renderer of the scene
MaxSceneWidth == 3
\* number of calls made on the scene
MaxSceneOps == 5

\* RendererUpdateFlags.WorldVolume, SpriteRendererUpdateFlags.UV and .Color
VertexData == {"WorldVolume", "UV", "Color"}

\* a continuous tiled renderer of the width w on a sprite with a left border
SceneRenderer(w) ==
  [tileMode |-> "Continuous", width |-> w, height |-> 2 * BorderDenominator,
   expect |-> 2 * BorderDenominator,
   border |-> [x |-> 1, y |-> 0, z |-> 0, w |-> 0], threshold |-> 1]

SceneInit ==
  /\ sceneRenderers = [r \in 1..NumTiledRenderers |->
                         [in |-> SceneRenderer(1), chunk |-> 0, dirty |-> VertexData]]
  /\ sceneWrites = <<>>
  /\ sceneOps = 0
  /\ tileIn = SceneRenderer(1)
  /\ posRow = <<>>
  /\ posColumn = <<>>
  /\ uvRow = <<>>
  /\ uvColumn = <<>>
  /\ tileDivision = NoDivision
  /\ tileVertexCount = 0
  /\ tilePc = "call"

\* the four static arrays
Scratch == [posRow |-> posRow, posColumn |-> posColumn, uvRow |-> uvRow,
            uvColumn |-> uvColumn]

\* the vertices the loops of updatePositions and updateUVs go through with the
\* static arrays sc
ScratchVertices(sc) == CountVertices(sc.posRow, sc.posColumn, sc.uvRow, sc.uvColumn)

\* updatePositions writes vertices[index .. index + 29] for every four vertices,
\* index starting at chunk._vEntry.start and growing by 36
PositionsLast(vCount) == IF vCount = 0 THEN -1 ELSE (vCount \div 4) * 36 - 7

\* updateUVs writes vertices[index], vertices[index + 1] for every vertex,
\* index starting at chunk._vEntry.start + 3 and growing by 9
UVsLast(vCount) == IF vCount = 0 THEN -1 ELSE 3 + (vCount - 1) * VertexFloats + 1

\* updateColor writes vertices[index .. index + 3] for every vertex of the area,
\* index starting at chunk._vEntry.start + 5 and growing by 9
ColorLast(len) ==
  IF len = 0 THEN -1 ELSE 5 + (len \div VertexFloats - 1) * VertexFloats + 3

\* the assembler calls of _render for the flags dirty: sc the static arrays and
\* len the length of the renderer's area after updatePositions
RenderCalls(r, dirty, sc, len) ==
  (IF "WorldVolume" \in dirty
     THEN <<[call |-> "updatePositions", renderer |-> r,
             last |-> PositionsLast(ScratchVertices(sc)), len |-> len]>>
     ELSE <<>>)
  \o (IF "UV" \in dirty
        THEN <<[call |-> "updateUVs", renderer |-> r,
                last |-> UVsLast(ScratchVertices(sc)), len |-> len]>>
        ELSE <<>>)
  \o (IF "Color" \in dirty
        THEN <<[call |-> "updateColor", renderer |-> r,
                last |-> ColorLast(len), len |-> len]>>
        ELSE <<>>)

\* _render of the renderer r: sc the static arrays and rd the renderer's
\* sub-chunk after the position update, if one was due
Rendered(r, sc, rd) ==
  /\ rd.chunk # 0
  /\ posRow' = sc.posRow
  /\ posColumn' = sc.posColumn
  /\ uvRow' = sc.uvRow
  /\ uvColumn' = sc.uvColumn
  /\ leases' = rd.leases
  /\ sceneRenderers' = [sceneRenderers EXCEPT ![r].chunk = rd.chunk,
                                               ![r].dirty = @ \ VertexData]
  /\ sceneWrites' = RenderCalls(r, sceneRenderers[r].dirty, sc, rd.leases[rd.chunk].len)

\* the position update of _render with the dividing d of the renderer
RenderedWith(r, d) ==
  Rendered(r, d, resetData(sceneRenderers[r].chunk, leases, ScratchVertices(d)))

\* SpriteRenderer._render of the renderer r
render(r) ==
  /\ sceneOps < MaxSceneOps
  /\ IF "WorldVolume" \in sceneRenderers[r].dirty
       THEN RenderedWith(r, Dividing(sceneRenderers[r].in))
       ELSE Rendered(r, Scratch, [chunk |-> sceneRenderers[r].chunk, leases |-> leases])
  /\ sceneOps' = sceneOps + 1
  /\ UNCHANGED <<tileIn, tileDivision, tileVertexCount, tilePc>>
  /\ UNCHANGED <<charRenderInfos, spriteChunk, textDestroyed, spriteDestroyed, rendOps>>
  /\ UNCHANGED <<pipelineVars, mgrVars, poolVars>>

\* a setter or sprite change of the renderer r that raises the flags
Dirtied(r, in, flags) ==
  /\ sceneOps < MaxSceneOps
  /\ sceneRenderers' = [sceneRenderers EXCEPT ![r].in = in,
                                               ![r].dirty = @ \cup flags]
  /\ sceneOps' = sceneOps + 1
  /\ UNCHANGED <<sceneWrites, posRow, posColumn, uvRow, uvColumn>>
  /\ UNCHANGED <<tileIn, tileDivision, tileVertexCount, tilePc>>
  /\ UNCHANGED <<pipelineVars, mgrVars, poolVars, rendVars>>

\* SpriteRenderer.width = value, in the tiled draw mode
setWidth(r, value) ==
  /\ sceneRenderers[r].in.width # value
  /\ Dirtied(r, [sceneRenderers[r].in EXCEPT !.width = value], VertexData)

\* SpriteRenderer.color = value
setColor(r) == Dirtied(r, sceneRenderers[r].in, {"Color"})

\* SpriteRenderer._onSpriteChange(SpriteModifyFlags.atlasRegion)
onSpriteChange(r) == Dirtied(r, sceneRenderers[r].in, {"UV"})

SceneNext ==
  \E r \in 1..NumTiledRenderers :
    \/ render(r)
    \/ \E value \in 1..MaxSceneWidth : setWidth(r, value)
    \/ setColor(r)
    \/ onSpriteChange(r)

(***************************************************************************)
(* C33: in any interleaving of the updatePositions, updateUVs and          *)
(* updateColor calls of several tiled renderers, which share the static    *)
(* arrays, each call writes only vertex slots inside the calling           *)
(* renderer's own area [start, start + len).                               *)
(***************************************************************************)
C33_WritesInsideOwnArea ==
  \A k \in 1..Len(sceneWrites) : sceneWrites[k].last < sceneWrites[k].len

\* the components that follow the batching pipeline, before any call
RestIdle == ManagerInit /\ PoolInit /\ RendererInit /\ TileIdle

\* the allocator and the batching pipeline, before any call
PipelineIdle == ChunkInit /\ DirtyInit /\ MaskIdle /\ BatchIdle /\ CanBatchIdle

InitOfChunk ==
  ChunkInit /\ DirtyInit /\ MaskIdle /\ BatchIdle /\ CanBatchIdle /\ RestIdle

InitOfDirty ==
  ChunkInit /\ DirtyInit /\ MaskIdle /\ BatchIdle /\ CanBatchIdle /\ RestIdle

InitOfMask ==
  ChunkInit /\ DirtyInit /\ MaskInit /\ BatchIdle /\ CanBatchIdle /\ RestIdle

InitOfBatch ==
  ChunkInit /\ DirtyInit /\ MaskIdle /\ BatchInit /\ CanBatchIdle /\ RestIdle

InitOfCanBatch ==
  ChunkInit /\ DirtyInit /\ MaskIdle /\ BatchIdle /\ CanBatchInit /\ RestIdle

InitOfMaskBatcher ==
  ChunkInit /\ DirtyInit /\ MaskIdle /\ MaskBatcherInit /\ CanBatchIdle /\ RestIdle

InitOfManager == PipelineIdle /\ RestIdle

InitOfPool == PipelineIdle /\ RestIdle

InitOfRenderer == PipelineIdle /\ RestIdle

InitOfTiled == PipelineIdle /\ ManagerInit /\ PoolInit /\ RendererInit /\ TileInit

InitOfScene == PipelineIdle /\ ManagerInit /\ PoolInit /\ RendererInit /\ SceneInit

SpecChunk == InitOfChunk /\ [][ChunkNext]_vars

SpecDirty == InitOfDirty /\ [][DirtyNext]_vars

SpecMask == InitOfMask /\ [][MaskNext]_vars

SpecBatch == InitOfBatch /\ [][BatchNext]_vars

SpecCanBatch == InitOfCanBatch /\ [][CanBatchNext]_vars

SpecManager == InitOfManager /\ [][ManagerNext]_vars

SpecPool == InitOfPool /\ [][PoolNext]_vars

SpecRenderer == InitOfRenderer /\ [][RendererNext]_vars

SpecTiled == InitOfTiled /\ [][TileNext]_vars

SpecScene == InitOfScene /\ [][SceneNext]_vars

SpecMaskBatcher == InitOfMaskBatcher /\ [][MaskBatcherNext]_vars

====
